---- MODULE Spec2Model ----
(***************************************************************************)
(* A model of the cheroot HTTP server core (clay/cheroot/server.py):       *)
(* the body readers, the request parser, the response writer and the       *)
(* per-connection driver HTTPConnection.communicate.                       *)
(*                                                                         *)
(* Byte strings are sequences of one-character strings, so that parsing    *)
(* and framing are computed byte by byte as the Python code computes them. *)
(***************************************************************************)
EXTENDS Integers, Sequences, FiniteSets, TLC

(***************************************************************************)
(* Python byte-string primitives used by server.py.  Indices are 1-based;  *)
(* find returns 0 where Python returns -1.                                 *)
(***************************************************************************)
EMPTY == << >>
LF == <<"\n">>
CRLF == <<"\r", "\n">>
TAB == <<"\t">>
SPACE == <<" ">>
COLON == <<":">>
SEMICOLON == <<";">>
COMMA == <<",">>
NUMBER_SIGN == <<"#">>
QUESTION_MARK == <<"?">>
ASTERISK == <<"*">>
FORWARD_SLASH == <<"/">>

UpperChars == <<"A","B","C","D","E","F","G","H","I","J","K","L","M","N","O","P","Q","R","S","T","U","V","W","X","Y","Z">>
LowerChars == <<"a","b","c","d","e","f","g","h","i","j","k","l","m","n","o","p","q","r","s","t","u","v","w","x","y","z">>
DigitChars == <<"0","1","2","3","4","5","6","7","8","9">>
HexChars == <<"0","1","2","3","4","5","6","7","8","9","a","b","c","d","e","f">>
Whitespace == {" ", "\t", "\n", "\r"}

Min(a, b) == IF a <= b THEN a ELSE b

IndexIn(c, chars) == IF \E i \in 1..Len(chars) : chars[i] = c THEN CHOOSE i \in 1..Len(chars) : chars[i] = c ELSE 0

isupper(c) == IndexIn(c, UpperChars) > 0
islower(c) == IndexIn(c, LowerChars) > 0
isalpha(c) == isupper(c) \/ islower(c)
tolower(c) == IF isupper(c) THEN LowerChars[IndexIn(c, UpperChars)] ELSE c
toupper(c) == IF islower(c) THEN UpperChars[IndexIn(c, LowerChars)] ELSE c

\* s[i:j] of Python, with 1-based inclusive bounds clipped to the string
Slice(s, i, j) == IF j < i THEN EMPTY ELSE SubSeq(s, i, Min(j, Len(s)))
Take(s, n) == Slice(s, 1, n)
Drop(s, n) == Slice(s, n + 1, Len(s))

lower(s) == [i \in 1..Len(s) |-> tolower(s[i])]

\* bytes.title(): a letter is upper-cased after a non-letter, lower-cased after a letter
title(s) == [i \in 1..Len(s) |-> IF i > 1 /\ isalpha(s[i - 1]) THEN tolower(s[i]) ELSE toupper(s[i])]

startswith(s, p) == Len(s) >= Len(p) /\ Take(s, Len(p)) = p
endswith(s, p) == Len(s) >= Len(p) /\ Drop(s, Len(s) - Len(p)) = p

\* position of the first occurrence of sub in s[from..upto], 0 when there is none
findsub(s, sub, from, upto) == LET hits == {i \in from..(Min(upto, Len(s)) - Len(sub) + 1) : Slice(s, i, i + Len(sub) - 1) = sub} IN IF hits = {} THEN 0 ELSE CHOOSE i \in hits : \A j \in hits : i <= j
find(s, sub) == findsub(s, sub, 1, Len(s))
contains(s, sub) == find(s, sub) > 0

lstripN(s) == IF \E i \in 1..Len(s) : s[i] \notin Whitespace THEN (CHOOSE i \in 1..Len(s) : s[i] \notin Whitespace /\ \A j \in 1..(i - 1) : s[j] \in Whitespace) - 1 ELSE Len(s)
rstripN(s) == IF \E i \in 1..Len(s) : s[i] \notin Whitespace THEN Len(s) - (CHOOSE i \in 1..Len(s) : s[i] \notin Whitespace /\ \A j \in (i + 1)..Len(s) : s[j] \in Whitespace) ELSE Len(s)
strip(s) == IF lstripN(s) = Len(s) THEN EMPTY ELSE Slice(s, lstripN(s) + 1, Len(s) - rstripN(s))

\* s.split(sep, 1): a sequence of one or two parts
split1(s, sep) == LET i == find(s, sep) IN IF i = 0 THEN <<s>> ELSE <<Take(s, i - 1), Drop(s, i + Len(sep) - 1)>>

\* s.split(sep, maxsplit) and s.split(sep) (maxsplit = -1)
RECURSIVE split(_, _, _)
split(s, sep, maxsplit) == LET i == find(s, sep) IN IF i = 0 \/ maxsplit = 0 THEN <<s>> ELSE <<Take(s, i - 1)>> \o split(Drop(s, i + Len(sep) - 1), sep, maxsplit - 1)

RECURSIVE join(_, _)
join(sep, parts) == IF Len(parts) = 0 THEN EMPTY ELSE IF Len(parts) = 1 THEN parts[1] ELSE parts[1] \o sep \o join(sep, Tail(parts))

RECURSIVE DigitsValue(_, _, _)
DigitsValue(s, chars, base) == IF Len(s) = 0 THEN 0 ELSE DigitsValue(Take(s, Len(s) - 1), chars, base) * base + (IndexIn(tolower(s[Len(s)]), chars) - 1)

\* int(s, base) for base 10 and 16: surrounding whitespace, a sign and (base 16) a
\* 0x prefix are accepted; anything else raises ValueError (ok = FALSE)
int_digits(d, chars, neg, base) ==
    IF Len(d) > 0 /\ \A i \in 1..Len(d) : IndexIn(tolower(d[i]), chars) > 0
    THEN [ok |-> TRUE, val |-> IF neg THEN 0 - DigitsValue(d, chars, base) ELSE DigitsValue(d, chars, base)]
    ELSE [ok |-> FALSE, val |-> 0]
int_signed(u, neg, base) == int_digits(IF base = 16 /\ Len(u) >= 2 /\ u[1] = "0" /\ u[2] \in {"x", "X"} THEN Drop(u, 2) ELSE u, IF base = 16 THEN HexChars ELSE DigitChars, neg, base)
int_stripped(s, base) == int_signed(IF Len(s) > 0 /\ s[1] \in {"-", "+"} THEN Tail(s) ELSE s, Len(s) > 0 /\ s[1] = "-", base)
intparse(s0, base) == int_stripped(strip(s0), base)

\* str(n) for n >= 0, and hex(n)[2:]
RECURSIVE tobase(_, _, _)
tobase(n, chars, base) == IF n < base THEN <<chars[n + 1]>> ELSE tobase(n \div base, chars, base) \o <<chars[(n % base) + 1]>>
str(n) == tobase(n, DigitChars, 10)
hex(n) == tobase(n, HexChars, 16)


(***************************************************************************)
(* Exceptions are values: every operation returns a record whose exc field *)
(* names the exception it raised, or NoExc.                                *)
(***************************************************************************)
NoExc == "none"
Timeout == "socket.timeout"
\* The value None of a size argument (it compares below every integer in Python 2)
None == -99

(***************************************************************************)
(* conn.rfile: the buffered reader over the socket (py2makefile.makefile). *)
(* buf is the data the peer has sent and the reader has not returned yet;  *)
(* eof tells whether the peer has closed its side after sending that data. *)
(* A read that needs more data than the peer sent ends at EOF if the peer  *)
(* closed and in a socket timeout if it did not.                           *)
(***************************************************************************)
sock_read(buf, eof, size) ==
    IF size >= 0 /\ Len(buf) >= size THEN [data |-> Take(buf, size), buf |-> Drop(buf, size), exc |-> NoExc]
    ELSE IF eof THEN [data |-> buf, buf |-> EMPTY, exc |-> NoExc]
    ELSE [data |-> EMPTY, buf |-> buf, exc |-> Timeout]

sock_readline(buf, eof, size) ==
    LET nl == IF size < 0 THEN find(buf, LF) ELSE findsub(buf, LF, 1, size)
    IN  IF nl > 0 THEN [data |-> Take(buf, nl), buf |-> Drop(buf, nl), exc |-> NoExc]
        ELSE IF size >= 0 /\ Len(buf) >= size THEN [data |-> Take(buf, size), buf |-> Drop(buf, size), exc |-> NoExc]
        ELSE IF eof THEN [data |-> buf, buf |-> EMPTY, exc |-> NoExc]
        ELSE [data |-> EMPTY, buf |-> buf, exc |-> Timeout]

(***************************************************************************)
(* The reader installed as request.rfile.  One record shape serves the     *)
(* three classes; kind names the class.                                    *)
(***************************************************************************)
NoRFile == [kind |-> "none", maxlen |-> 0, bytes_read |-> 0, remaining |-> 0, buffer |-> EMPTY, closed |-> FALSE]
SizeCheckWrapper(maxlen) == [NoRFile EXCEPT !.kind = "SizeCheckWrapper", !.maxlen = maxlen]
KnownLengthRFile(content_length) == [NoRFile EXCEPT !.kind = "KnownLengthRFile", !.remaining = content_length]
ChunkedRFile(maxlen) == [NoRFile EXCEPT !.kind = "ChunkedRFile", !.maxlen = maxlen]

\* The size of the pieces SizeCheckWrapper.readline() reads a line in
ReadlineChunk == 256

\* A wrapper that never finds the limit exceeded
SCW_check_never(rf) == NoExc

\* SizeCheckWrapper._check_length
SCW_check_length(rf) == IF rf.maxlen # 0 /\ rf.bytes_read > rf.maxlen THEN "MaxSizeExceeded" ELSE NoExc

\* self.bytes_read += len(data); self._check_length() on the result r of the inner stream
SCW_count(rf, r) ==
    LET counted == [rf EXCEPT !.bytes_read = @ + Len(r.data)]
    IN  IF r.exc # NoExc THEN [data |-> EMPTY, rf |-> rf, buf |-> r.buf, exc |-> r.exc]
        ELSE IF SCW_check_length(counted) # NoExc THEN [data |-> EMPTY, rf |-> counted, buf |-> r.buf, exc |-> SCW_check_length(counted)]
        ELSE [data |-> r.data, rf |-> counted, buf |-> r.buf, exc |-> NoExc]

\* SizeCheckWrapper.readline(): size is None, the line is read in pieces
RECURSIVE SCW_readline_loop(_, _, _, _)
SCW_readline_piece(c, eof, res) ==
    IF c.exc # NoExc THEN c
    ELSE IF Len(c.data) < ReadlineChunk \/ endswith(c.data, LF) THEN [c EXCEPT !.data = res \o c.data]
    ELSE SCW_readline_loop(c.rf, c.buf, eof, res \o c.data)
SCW_readline_loop(rf, buf, eof, res) == SCW_readline_piece(SCW_count(rf, sock_readline(buf, eof, ReadlineChunk)), eof, res)

SCW_readline(rf, buf, eof, size) == IF size # None THEN SCW_count(rf, sock_readline(buf, eof, size)) ELSE SCW_readline_loop(rf, buf, eof, EMPTY)
SCW_read(rf, buf, eof, size) == SCW_count(rf, sock_read(buf, eof, size))

(***************************************************************************)
(* KnownLengthRFile.  calls counts the calls made to the inner stream.     *)
(***************************************************************************)
\* self.remaining -= len(data) on the result r of the inner stream
KLR_count(rf, r) == [data |-> r.data, rf |-> [rf EXCEPT !.remaining = @ - Len(r.data)], buf |-> r.buf, exc |-> r.exc, calls |-> 1]

\* size = min(size, self.remaining), or self.remaining when size is None
KLR_size(rf, size) == IF size = None THEN rf.remaining ELSE Min(size, rf.remaining)

KLR_read(rf, buf, eof, size) ==
    IF rf.remaining = 0 THEN [data |-> EMPTY, rf |-> rf, buf |-> buf, exc |-> NoExc, calls |-> 0]
    ELSE KLR_count(rf, sock_read(buf, eof, KLR_size(rf, size)))

KLR_readline(rf, buf, eof, size) ==
    IF rf.remaining = 0 THEN [data |-> EMPTY, rf |-> rf, buf |-> buf, exc |-> NoExc, calls |-> 0]
    ELSE KLR_count(rf, sock_readline(buf, eof, KLR_size(rf, size)))

\* KnownLengthRFile.readlines(sizehint): the lines are returned joined; total is their length
RECURSIVE KLR_readlines_loop(_, _, _, _, _, _)
KLR_readlines_line(r, eof, sizehint, lines, calls) ==
    IF r.exc # NoExc THEN [r EXCEPT !.data = EMPTY, !.calls = calls]
    ELSE IF Len(r.data) = 0 THEN [r EXCEPT !.data = lines, !.calls = calls]
    ELSE IF 0 < sizehint /\ sizehint <= Len(lines) + Len(r.data) THEN [r EXCEPT !.data = lines \o r.data, !.calls = calls]
    ELSE KLR_readlines_loop(r.rf, r.buf, eof, sizehint, lines \o r.data, calls)
KLR_readlines_called(r, eof, sizehint, lines, calls) == KLR_readlines_line(r, eof, sizehint, lines, calls + r.calls)
KLR_readlines_loop(rf, buf, eof, sizehint, lines, calls) == KLR_readlines_called(KLR_readline(rf, buf, eof, sizehint), eof, sizehint, lines, calls)
KLR_readlines(rf, buf, eof, sizehint) == KLR_readlines_loop(rf, buf, eof, sizehint, EMPTY, 0)

\* KnownLengthRFile.__next__: next(self.rfile) is the inner stream's next full line
KLR_next_line(rf, r) ==
    IF r.exc # NoExc THEN [data |-> EMPTY, rf |-> rf, buf |-> r.buf, exc |-> r.exc, calls |-> 1]
    ELSE IF Len(r.data) = 0 THEN [data |-> EMPTY, rf |-> rf, buf |-> r.buf, exc |-> "StopIteration", calls |-> 1]
    ELSE KLR_count(rf, r)
KLR_next(rf, buf, eof) == KLR_next_line(rf, sock_readline(buf, eof, -1))

(***************************************************************************)
(* ChunkedRFile.                                                           *)
(***************************************************************************)
\* _fetch from the read of the chunk on: c is the chunk read, crlf the two bytes after it
CRF_fetch_crlf(rf, crlf) ==
    IF crlf.exc # NoExc THEN [rf |-> rf, buf |-> crlf.buf, exc |-> crlf.exc]
    ELSE IF crlf.data # CRLF THEN [rf |-> rf, buf |-> crlf.buf, exc |-> "ValueError"]
    ELSE [rf |-> rf, buf |-> crlf.buf, exc |-> NoExc]
CRF_fetch_chunk(rf, c, eof) ==
    IF c.exc # NoExc THEN [rf |-> rf, buf |-> c.buf, exc |-> c.exc]
    ELSE CRF_fetch_crlf([rf EXCEPT !.bytes_read = @ + Len(c.data), !.buffer = @ \o c.data], sock_read(c.buf, eof, 2))
\* _fetch from the size line on: rf has counted the line, buf follows it
CRF_fetch_size(rf, buf, chunk_size, eof) ==
    IF rf.maxlen # 0 /\ rf.bytes_read > rf.maxlen THEN [rf |-> rf, buf |-> buf, exc |-> "MaxSizeExceeded"]
    ELSE IF ~chunk_size.ok THEN [rf |-> rf, buf |-> buf, exc |-> "ValueError"]
    ELSE IF chunk_size.val <= 0 THEN [rf |-> [rf EXCEPT !.closed = TRUE], buf |-> buf, exc |-> NoExc]
    ELSE IF rf.maxlen # 0 /\ rf.bytes_read + chunk_size.val > rf.maxlen THEN [rf |-> rf, buf |-> buf, exc |-> "IOError"]
    ELSE CRF_fetch_chunk(rf, sock_read(buf, eof, chunk_size.val), eof)
CRF_fetch_line(rf, l, eof) ==
    IF l.exc # NoExc THEN [rf |-> rf, buf |-> l.buf, exc |-> l.exc]
    ELSE CRF_fetch_size([rf EXCEPT !.bytes_read = @ + Len(l.data)], l.buf, intparse(split1(strip(l.data), SEMICOLON)[1], 16), eof)
\* ChunkedRFile._fetch
CRF_fetch(rf, buf, eof) == IF rf.closed THEN [rf |-> rf, buf |-> buf, exc |-> NoExc] ELSE CRF_fetch_line(rf, sock_readline(buf, eof, -1), eof)

\* ChunkedRFile.read(size)
RECURSIVE CRF_read_loop(_, _, _, _, _)
CRF_read_fetched(f, eof, size, data) ==
    IF f.exc # NoExc THEN [data |-> EMPTY, rf |-> f.rf, buf |-> f.buf, exc |-> f.exc, calls |-> 0]
    ELSE IF Len(f.rf.buffer) = 0 THEN [data |-> data, rf |-> f.rf, buf |-> f.buf, exc |-> NoExc, calls |-> 0]
    ELSE IF size # None /\ size # 0
         THEN CRF_read_loop([f.rf EXCEPT !.buffer = Drop(@, size - Len(data))], f.buf, eof, size, data \o Take(f.rf.buffer, size - Len(data)))
         ELSE CRF_read_loop([f.rf EXCEPT !.buffer = EMPTY], f.buf, eof, size, data \o f.rf.buffer)
CRF_read_loop(rf, buf, eof, size, data) ==
    IF size # None /\ size # 0 /\ Len(data) >= size THEN [data |-> data, rf |-> rf, buf |-> buf, exc |-> NoExc, calls |-> 0]
    ELSE CRF_read_fetched(IF Len(rf.buffer) = 0 THEN CRF_fetch(rf, buf, eof) ELSE [rf |-> rf, buf |-> buf, exc |-> NoExc], eof, size, data)
CRF_read(rf, buf, eof, size) == CRF_read_loop(rf, buf, eof, size, EMPTY)

(***************************************************************************)
(* State.                                                                  *)
(*   server       the HTTPServer attributes the request handling reads; in *)
(*                the specifications of the server object, its bind_addr,  *)
(*                ready, interrupt and socket                              *)
(*   rbuf         bytes the peer sent that conn.rfile has not returned yet *)
(*   peer_closed  whether the peer closed its side after sending them      *)
(*   sock_err     the error the next send on the socket raises, or NoExc   *)
(*   sent         the sends made on the socket, in order; n is the number  *)
(*                of the request object that made the send                 *)
(*   req          the current HTTPRequest object                           *)
(*   rfile        the reader installed as req.rfile                        *)
(*   pc           where HTTPConnection.communicate stands; in the          *)
(*                specification of start() and stop(), where each thread   *)
(*                stands                                                   *)
(*   conn         the HTTPConnection: communicate's request_seen, linger,  *)
(*                and whether close() has closed the socket                *)
(*   nreq         how many HTTPRequest objects the connection has made     *)
(*   gw           what the gateway has done for the current request        *)
(*   last         the latest call (of a reader, of read_headers, of a      *)
(*                setter) and what it returned or raised                   *)
(*   hist         what the model records about the run for the properties  *)
(***************************************************************************)
VARIABLES server, rbuf, peer_closed, sock_err, sent, req, rfile, conn, pc, nreq, gw, last, hist
vars == <<server, rbuf, peer_closed, sock_err, sent, req, rfile, conn, pc, nreq, gw, last, hist>>

SockErrIgnored == "socket.error in socket_errors_to_ignore"
SockErrFatal == "socket.error"

HTTP10 == <<"H","T","T","P","/","1",".","0">>
HTTP11 == <<"H","T","T","P","/","1",".","1">>

\* The value None of an attribute or a return value that is a byte string elsewhere
PyNone == <<"<None>">>
\* A local variable that has not been assigned yet
Unbound == <<"<unbound>">>

\* HTTPRequest.__init__ (status "" is stored by the status setter as "200 OK")
NewRequest ==
    [ready |-> FALSE, started_request |-> FALSE, scheme |-> <<"h","t","t","p">>,
     response_protocol |-> HTTP10, inheaders |-> [h \in {} |-> EMPTY],
     status |-> <<"2","0","0"," ","O","K">>, outheaders |-> << >>, sent_headers |-> FALSE,
     close_connection |-> FALSE, chunked_read |-> FALSE, chunked_write |-> FALSE,
     allow_message_body |-> TRUE,
     uri |-> PyNone, method |-> PyNone, path |-> PyNone, qs |-> PyNone, request_protocol |-> PyNone]

(***************************************************************************)
(* The methods of HTTPRequest take and return a world record               *)
(*   [req, rfile, rbuf, out, exc, msg, ret, data]                          *)
(* where out lists the sends the method made, exc is the exception it      *)
(* raised, msg that exception's args[0] where the code reads it, and ret   *)
(* the truth value of what the method returned.                            *)
(***************************************************************************)
World == [req |-> req, rfile |-> rfile, rbuf |-> rbuf, linger |-> conn.linger, out |-> << >>, exc |-> NoExc, msg |-> EMPTY, ret |-> TRUE, data |-> EMPTY]

\* write(wfile, output): wfile.sendall(output) on the socket (no send for empty output)
write(w, output) == IF output = EMPTY THEN w ELSE IF sock_err = NoExc THEN [w EXCEPT !.out = Append(@, output)] ELSE [w EXCEPT !.exc = sock_err]

\* dict.get(key, default)
get(d, key, default) == IF key \in DOMAIN d THEN d[key] ELSE default
\* d[key] = value
put(d, key, value) == [n \in (DOMAIN d) \cup {key} |-> IF n = key THEN value ELSE d[n]]

comma_separated_headers ==
    {<<"A","c","c","e","p","t">>, <<"A","c","c","e","p","t","-","C","h","a","r","s","e","t">>, <<"A","c","c","e","p","t","-","E","n","c","o","d","i","n","g">>,
     <<"A","c","c","e","p","t","-","L","a","n","g","u","a","g","e">>, <<"A","c","c","e","p","t","-","R","a","n","g","e","s">>, <<"A","l","l","o","w">>, <<"C","a","c","h","e","-","C","o","n","t","r","o","l">>,
     <<"C","o","n","n","e","c","t","i","o","n">>, <<"C","o","n","t","e","n","t","-","E","n","c","o","d","i","n","g">>, <<"C","o","n","t","e","n","t","-","L","a","n","g","u","a","g","e">>, <<"E","x","p","e","c","t">>,
     <<"I","f","-","M","a","t","c","h">>, <<"I","f","-","N","o","n","e","-","M","a","t","c","h">>, <<"P","r","a","g","m","a">>, <<"P","r","o","x","y","-","A","u","t","h","e","n","t","i","c","a","t","e">>, <<"T","E">>,
     <<"T","r","a","i","l","e","r">>, <<"T","r","a","n","s","f","e","r","-","E","n","c","o","d","i","n","g">>, <<"U","p","g","r","a","d","e">>, <<"V","a","r","y">>, <<"V","i","a">>, <<"W","a","r","n","i","n","g">>,
     <<"W","W","W","-","A","u","t","h","e","n","t","i","c","a","t","e">>}

\* The texts of the ValueErrors of read_headers
MsgIllegalEnd == <<"I","l","l","e","g","a","l"," ","e","n","d"," ","o","f"," ","h","e","a","d","e","r","s",".">>
MsgRequiresCRLF == <<"H","T","T","P"," ","r","e","q","u","i","r","e","s"," ","C","R","L","F"," ","t","e","r","m","i","n","a","t","o","r","s">>
MsgIllegalHeaderLine == <<"I","l","l","e","g","a","l"," ","h","e","a","d","e","r"," ","l","i","n","e",".">>

\* A pass that stores the last value of every repeated header
read_headers_store_last(hdict, k, hname, v) == [hdict |-> put(hdict, hname, v), k |-> k, hname |-> hname, exc |-> NoExc, msg |-> EMPTY]

\* The end of one pass of the loop of read_headers: k, hname and v are the function's
\* local variables once the line has been taken apart
read_headers_store(hdict, k, hname, v) ==
    IF k = Unbound THEN [hdict |-> hdict, k |-> k, hname |-> hname, exc |-> "UnboundLocalError", msg |-> EMPTY]
    ELSE IF k \in comma_separated_headers /\ get(hdict, hname, EMPTY) # EMPTY THEN [hdict |-> put(hdict, hname, get(hdict, hname, EMPTY) \o <<","," ">> \o v), k |-> k, hname |-> hname, exc |-> NoExc, msg |-> EMPTY]
    ELSE [hdict |-> put(hdict, hname, v), k |-> k, hname |-> hname, exc |-> NoExc, msg |-> EMPTY]

\* k.strip().title() is both k and hname of a line that is not a continuation
read_headers_named(hdict, k, v) == read_headers_store(hdict, k, k, v)

\* One pass of the loop of read_headers on the line just read
read_headers_line(hdict, line, k, hname) ==
    IF line[1] \in {" ", "\t"} THEN read_headers_store(hdict, k, hname, strip(line))
    ELSE IF ~contains(line, COLON) THEN [hdict |-> hdict, k |-> k, hname |-> hname, exc |-> "ValueError", msg |-> MsgIllegalHeaderLine]
    ELSE read_headers_named(hdict, title(strip(split1(line, COLON)[1])), strip(split1(line, COLON)[2]))

\* read_headers(rfile, hdict) with rfile the request's SizeCheckWrapper and hdict req.inheaders
RECURSIVE read_headers_loop(_, _, _)
read_headers_stored(w, h) ==
    IF h.exc # NoExc THEN [w EXCEPT !.exc = h.exc, !.msg = h.msg]
    ELSE read_headers_loop([w EXCEPT !.req.inheaders = h.hdict], h.k, h.hname)
read_headers_read(w, line, k, hname) ==
    IF w.exc # NoExc THEN w
    ELSE IF line = EMPTY THEN [w EXCEPT !.exc = "ValueError", !.msg = MsgIllegalEnd]
    ELSE IF line = CRLF THEN w
    ELSE IF ~endswith(line, CRLF) THEN [w EXCEPT !.exc = "ValueError", !.msg = MsgRequiresCRLF]
    ELSE read_headers_stored(w, read_headers_line(w.req.inheaders, line, k, hname))
\* A call of self.rfile's read or readline: r is what the reader returned
reader_done(w, r) == [w EXCEPT !.rfile = r.rf, !.rbuf = r.buf, !.exc = r.exc, !.data = r.data]
\* A peer that speaks plain HTTP to a connection wrapped by an SSL adapter: the read raises NoSSLError
rfile_readline(w) == IF server.ssl_adapter THEN [w EXCEPT !.exc = "NoSSLError"] ELSE reader_done(w, SCW_readline(w.rfile, w.rbuf, peer_closed, None))
read_headers_next(w, k, hname) == read_headers_read(w, w.data, k, hname)
read_headers_loop(w, k, hname) == read_headers_next(rfile_readline(w), k, hname)
read_headers(w) == read_headers_loop(w, Unbound, Unbound)

\* A canned response that leaves close_connection as it is
simple_response_keep(w, too_large) == w

\* if status[:3] in ("413", "414"): self.close_connection = True
simple_response_close(w, too_large) == [w EXCEPT !.req.close_connection = IF too_large THEN TRUE ELSE @]

\* HTTPRequest.simple_response(status, msg)
simple_response(w, status, msg) ==
    LET too_large == Take(status, 3) \in {<<"4","1","3">>, <<"4","1","4">>}
        buf == server.protocol \o SPACE \o status \o CRLF
               \o <<"C","o","n","t","e","n","t","-","L","e","n","g","t","h",":"," ">> \o str(Len(msg)) \o CRLF
               \o <<"C","o","n","t","e","n","t","-","T","y","p","e",":"," ","t","e","x","t","/","p","l","a","i","n","\r","\n">>
               \o (IF too_large /\ w.req.response_protocol = HTTP11 THEN <<"C","o","n","n","e","c","t","i","o","n",":"," ","c","l","o","s","e","\r","\n">> ELSE EMPTY)
               \o CRLF \o msg
        w1 == simple_response_close(w, too_large)
        w2 == write(w1, buf)
    IN  IF w2.exc = SockErrIgnored THEN [w2 EXCEPT !.exc = NoExc] ELSE w2

\* chr() of a decoded escape: the printable ASCII range, one token for every other byte
AsciiPrintable == <<" ","!","\"","#","$","%","&","'","(",")","*","+",",","-",".","/","0","1","2","3","4","5","6","7","8","9",":",";","<","=",">","?","@","A","B","C","D","E","F","G","H","I","J","K","L","M","N","O","P","Q","R","S","T","U","V","W","X","Y","Z","[","\\","]","^","_","<backtick>","a","b","c","d","e","f","g","h","i","j","k","l","m","n","o","p","q","r","s","t","u","v","w","x","y","z","{","|","}","~">>
chr(n) == IF n >= 32 /\ n <= 126 THEN AsciiPrintable[n - 31] ELSE "<byte>"

\* The decoded rest joined to the decoded head, if the rest could be decoded
unquoted(head, rest) == IF ~rest.ok THEN rest ELSE [ok |-> TRUE, val |-> head \o rest.val]

\* unquote(x): every %HH becomes a byte; a % not followed by two hex digits is a ValueError
RECURSIVE unquote(_)
unquote_at(s, i, hh) ==
    IF i = 0 THEN [ok |-> TRUE, val |-> s]
    ELSE IF Len(s) < i + 2 \/ ~hh.ok \/ hh.val < 0 \/ s[i + 1] \in {"+", "-"} \cup Whitespace \/ s[i + 2] \in Whitespace \cup {"x", "X"} THEN [ok |-> FALSE, val |-> EMPTY]
    ELSE unquoted(Take(s, i - 1) \o <<chr(hh.val)>>, unquote(Drop(s, i + 2)))
unquote_from(s, i) == unquote_at(s, i, intparse(Slice(s, i + 1, i + 2), 16))
unquote(s) == unquote_from(s, find(s, <<"%">>))

\* quoted_slash.split(path): split at every %2F, whatever the case of the F
RECURSIVE quoted_slash_split(_)
quoted_slash_at(path, i, j) ==
    IF i = 0 /\ j = 0 THEN <<path>>
    ELSE IF j = 0 \/ (i # 0 /\ i < j) THEN <<Take(path, i - 1)>> \o quoted_slash_split(Drop(path, i + 2))
    ELSE <<Take(path, j - 1)>> \o quoted_slash_split(Drop(path, j + 2))
\* A split that leaves the path whole, so that every escape is decoded
quoted_slash_whole(path) == <<path>>

quoted_slash_split(path) == quoted_slash_at(path, find(path, <<"%","2","F">>), find(path, <<"%","2","f">>))

\* [unquote(x) for x in atoms]
RECURSIVE unquote_all(_)
unquote_atom(a, atoms) == IF ~a.ok THEN [ok |-> FALSE, val |-> << >>] ELSE unquoted(<<a.val>>, unquote_all(atoms))
unquote_all(atoms) == IF Len(atoms) = 0 THEN [ok |-> TRUE, val |-> << >>] ELSE unquote_atom(unquote(Head(atoms)), Tail(atoms))

\* HTTPRequest.parse_request_uri(uri): <<scheme, authority, path>>, or exc
parse_absolute_uri(uri, i, remainder) ==
    IF Len(remainder) = 1 THEN [exc |-> "ValueError", scheme |-> PyNone, authority |-> PyNone, path |-> PyNone]
    ELSE [exc |-> NoExc, scheme |-> lower(Take(uri, i - 1)), authority |-> remainder[1], path |-> FORWARD_SLASH \o remainder[2]]
parse_request_uri_at(uri, i) ==
    IF uri = ASTERISK THEN [exc |-> NoExc, scheme |-> PyNone, authority |-> PyNone, path |-> uri]
    ELSE IF i > 1 /\ ~contains(Take(uri, i - 1), QUESTION_MARK) THEN parse_absolute_uri(uri, i, split1(Drop(uri, i + 2), FORWARD_SLASH))
    ELSE IF startswith(uri, FORWARD_SLASH) THEN [exc |-> NoExc, scheme |-> PyNone, authority |-> PyNone, path |-> uri]
    ELSE [exc |-> NoExc, scheme |-> PyNone, authority |-> uri, path |-> PyNone]
parse_request_uri(uri) == parse_request_uri_at(uri, find(uri, <<":","/","/">>))

\* int(p[5]), int(p[7]) of a protocol string (0-based indices): <<major, minor>>
protocol_version(p) ==
    IF Len(p) < 8 THEN [exc |-> "IndexError", v |-> <<0, 0>>]
    ELSE IF IndexIn(p[6], DigitChars) = 0 \/ IndexIn(p[8], DigitChars) = 0 THEN [exc |-> "ValueError", v |-> <<0, 0>>]
    ELSE [exc |-> NoExc, v |-> <<IndexIn(p[6], DigitChars) - 1, IndexIn(p[8], DigitChars) - 1>>]

\* A choice of the request's version whatever the server's
min_version_first(a, b) == a

\* min() of two (major, minor) tuples
min_version(a, b) == IF a[1] < b[1] \/ (a[1] = b[1] /\ a[2] <= b[2]) THEN a ELSE b

\* return value of a method that ran to its return statement
Return(w, value) == IF w.exc # NoExc THEN w ELSE [w EXCEPT !.ret = value]
Raise(w, exc) == [w EXCEPT !.exc = exc]

\* The text of the ValueError of unquote
MsgBadEscape == <<"I","n","v","a","l","i","d"," ","%","-","e","s","c","a","p","e">>
BadRequest == <<"4","0","0"," ","B","a","d"," ","R","e","q","u","e","s","t">>

\* read_request_line from the version comparison on
read_request_line_version(w, req_protocol, rp, sp) ==
    IF sp[1] # rp[1] THEN Return(simple_response(w, <<"5","0","5"," ","H","T","T","P"," ","V","e","r","s","i","o","n"," ","N","o","t"," ","S","u","p","p","o","r","t","e","d">>, EMPTY), FALSE)
    ELSE Return([w EXCEPT !.req.request_protocol = req_protocol, !.req.response_protocol = <<"H","T","T","P","/">> \o str(min_version(rp, sp)[1]) \o <<".">> \o str(min_version(rp, sp)[2])], TRUE)

\* read_request_line from the unquoting of the path on
read_request_line_path(w, req_protocol, qs, atoms) ==
    IF ~atoms.ok THEN Return(simple_response(w, BadRequest, MsgBadEscape), FALSE)
    ELSE read_request_line_version([w EXCEPT !.req.path = join(<<"%","2","F">>, atoms.val), !.req.qs = qs], req_protocol, protocol_version(req_protocol).v, protocol_version(server.protocol).v)

\* path, qs = path.split(QUESTION_MARK, 1) if there is a question mark in path
read_request_line_query(w, req_protocol, pq) == read_request_line_path(w, req_protocol, pq[2], unquote_all(quoted_slash_split(pq[1])))

\* read_request_line from the result u of parse_request_uri on
read_request_line_uri(w, req_protocol, u) ==
    IF u.exc # NoExc THEN Raise(w, u.exc)
    ELSE IF u.path = PyNone THEN Raise(w, "TypeError")
    ELSE IF contains(u.path, NUMBER_SIGN) THEN Return(simple_response(w, BadRequest, <<"I","l","l","e","g","a","l"," ","#","f","r","a","g","m","e","n","t"," ","i","n"," ","R","e","q","u","e","s","t","-","U","R","I",".">>), FALSE)
    ELSE read_request_line_query(IF u.scheme # PyNone /\ u.scheme # EMPTY THEN [w EXCEPT !.req.scheme = u.scheme] ELSE w, req_protocol,
                                 IF contains(u.path, QUESTION_MARK) THEN split1(u.path, QUESTION_MARK) ELSE <<u.path, EMPTY>>)

\* read_request_line from the split of the request line on
read_request_line_parts(w, parts) ==
    IF Len(parts) # 3 THEN Return(simple_response(w, BadRequest, <<"M","a","l","f","o","r","m","e","d"," ","R","e","q","u","e","s","t","-","L","i","n","e">>), FALSE)
    ELSE IF protocol_version(parts[3]).exc # NoExc THEN Return(simple_response(w, BadRequest, <<"M","a","l","f","o","r","m","e","d"," ","R","e","q","u","e","s","t","-","L","i","n","e">>), FALSE)
    ELSE read_request_line_uri([w EXCEPT !.req.uri = parts[2], !.req.method = parts[1]], parts[3], parse_request_uri(parts[2]))

\* read_request_line once the request line is read
read_request_line_parse(w, request_line) ==
    IF ~endswith(request_line, CRLF) THEN Return(simple_response(w, BadRequest, <<"H","T","T","P"," ","r","e","q","u","i","r","e","s"," ","C","R","L","F"," ","t","e","r","m","i","n","a","t","o","r","s">>), FALSE)
    ELSE read_request_line_parts(w, split(strip(request_line), SPACE, 2))

\* read_request_line after the second readline, made when the first line is CRLF
read_request_line_second(w) ==
    IF w.exc # NoExc THEN w
    ELSE IF w.data = EMPTY THEN Return(w, FALSE)
    ELSE read_request_line_parse(w, w.data)

\* A read_request_line that skips no leading CRLF
read_request_line_first_strict(w) ==
    IF w.exc # NoExc THEN w
    ELSE IF w.data = EMPTY THEN Return([w EXCEPT !.req.started_request = TRUE], FALSE)
    ELSE read_request_line_parse([w EXCEPT !.req.started_request = TRUE], w.data)

\* read_request_line after the first readline
read_request_line_first(w) ==
    IF w.exc # NoExc THEN w
    ELSE IF w.data = EMPTY THEN Return([w EXCEPT !.req.started_request = TRUE], FALSE)
    ELSE IF w.data = CRLF THEN read_request_line_second(rfile_readline([w EXCEPT !.req.started_request = TRUE]))
    ELSE read_request_line_parse([w EXCEPT !.req.started_request = TRUE], w.data)

\* HTTPRequest.read_request_line
read_request_line(w) == read_request_line_first(rfile_readline(w))

\* [x.strip().lower() for x in te.split(COMMA) if x.strip()]
te_stripped(xs) == SelectSeq([i \in 1..Len(xs) |-> lower(strip(xs[i]))], LAMBDA x : x # EMPTY)
te_tokens(te) == te_stripped(split(te, COMMA, -1))

\* A loop over the transfer-encodings that is content with one chunked among them
te_some_chunked(tokens) == Len(tokens) = 0 \/ \E i \in 1..Len(tokens) : tokens[i] = <<"c","h","u","n","k","e","d">>

\* whether the loop over the transfer-encodings meets no encoding but chunked
te_all_chunked(tokens) == \A i \in 1..Len(tokens) : tokens[i] = <<"c","h","u","n","k","e","d">>

\* A write whose socket.error is swallowed if it is in socket_errors_to_ignore
ignoring(w) == IF w.exc = SockErrIgnored THEN [w EXCEPT !.exc = NoExc] ELSE w

\* self.simple_response("501 Unimplemented"); self.close_connection = True
unimplemented(w) == [w EXCEPT !.req.close_connection = IF w.exc = NoExc THEN TRUE ELSE @]

\* A read_request_headers that never answers an Expect header
read_request_headers_te_silent(w, te) ==
    IF ~te_all_chunked(te) THEN Return(w, FALSE) ELSE Return([w EXCEPT !.req.chunked_read = Len(te) > 0], TRUE)

\* read_request_headers from the Transfer-Encoding header on
read_request_headers_te(w, te) ==
    IF ~te_all_chunked(te) THEN Return(unimplemented(simple_response([w EXCEPT !.req.chunked_read = Len(te) > 0 /\ te[1] = <<"c","h","u","n","k","e","d">>], <<"5","0","1"," ","U","n","i","m","p","l","e","m","e","n","t","e","d">>, EMPTY)), FALSE)
    ELSE IF get(w.req.inheaders, <<"E","x","p","e","c","t">>, EMPTY) = <<"1","0","0","-","c","o","n","t","i","n","u","e">> THEN Return(ignoring(write([w EXCEPT !.req.chunked_read = Len(te) > 0], server.protocol \o <<" ","1","0","0"," ","C","o","n","t","i","n","u","e","\r","\n","\r","\n">>)), TRUE)
    ELSE Return([w EXCEPT !.req.chunked_read = Len(te) > 0], TRUE)

\* A read_request_headers that treats every request as HTTP/1.1 does: open unless told to close
read_request_headers_connection_open(w, connection) ==
    read_request_headers_te([w EXCEPT !.req.close_connection = IF connection = <<"c","l","o","s","e">> THEN TRUE ELSE @],
                            IF w.req.response_protocol = HTTP11 THEN te_tokens(get(w.req.inheaders, <<"T","r","a","n","s","f","e","r","-","E","n","c","o","d","i","n","g">>, EMPTY)) ELSE << >>)

\* read_request_headers from the Connection header on
read_request_headers_connection(w, connection) ==
    read_request_headers_te([w EXCEPT !.req.close_connection = IF (IF w.req.response_protocol = HTTP11 THEN connection = <<"c","l","o","s","e">> ELSE connection # <<"K","e","e","p","-","A","l","i","v","e">>) THEN TRUE ELSE @],
                            IF w.req.response_protocol = HTTP11 THEN te_tokens(get(w.req.inheaders, <<"T","r","a","n","s","f","e","r","-","E","n","c","o","d","i","n","g">>, EMPTY)) ELSE << >>)

\* read_request_headers from the body size limit on; cl is int(Content-Length or 0)
read_request_headers_limit(w, mrbs, cl) ==
    IF mrbs # 0 /\ ~cl.ok THEN Raise(w, "ValueError")
    ELSE IF mrbs # 0 /\ cl.val > mrbs THEN Return(simple_response(w, <<"4","1","3"," ","R","e","q","u","e","s","t"," ","E","n","t","i","t","y"," ","T","o","o"," ","L","a","r","g","e">>, <<"T","h","e"," ","e","n","t","i","t","y"," ","s","e","n","t"," ","w","i","t","h"," ","t","h","e"," ","r","e","q","u","e","s","t"," ","e","x","c","e","e","d","s"," ","t","h","e"," ","m","a","x","i","m","u","m"," ","a","l","l","o","w","e","d"," ","b","y","t","e","s",".">>), FALSE)
    ELSE read_request_headers_connection(w, get(w.req.inheaders, <<"C","o","n","n","e","c","t","i","o","n">>, EMPTY))

\* int(self.inheaders.get("Content-Length", 0))
content_length(inheaders) == IF <<"C","o","n","t","e","n","t","-","L","e","n","g","t","h">> \in DOMAIN inheaders THEN intparse(inheaders[<<"C","o","n","t","e","n","t","-","L","e","n","g","t","h">>], 10) ELSE [ok |-> TRUE, val |-> 0]

\* read_request_headers after read_headers
read_request_headers_read(w) ==
    IF w.exc = "ValueError" THEN Return(simple_response([w EXCEPT !.exc = NoExc, !.msg = EMPTY], BadRequest, w.msg), FALSE)
    ELSE IF w.exc # NoExc THEN w
    ELSE read_request_headers_limit(w, server.max_request_body_size, content_length(w.req.inheaders))

\* HTTPRequest.read_request_headers
read_request_headers(w) == read_request_headers_read(read_headers(w))

\* parse_request after read_request_headers
parse_request_headers(w) ==
    IF w.exc = "MaxSizeExceeded" THEN simple_response([w EXCEPT !.exc = NoExc], <<"4","1","3"," ","R","e","q","u","e","s","t"," ","E","n","t","i","t","y"," ","T","o","o"," ","L","a","r","g","e">>, <<"T","h","e"," ","h","e","a","d","e","r","s"," ","s","e","n","t"," ","w","i","t","h"," ","t","h","e"," ","r","e","q","u","e","s","t"," ","e","x","c","e","e","d"," ","t","h","e"," ","m","a","x","i","m","u","m"," ","a","l","l","o","w","e","d"," ","b","y","t","e","s",".">>)
    ELSE IF w.exc # NoExc \/ ~w.ret THEN w
    ELSE [w EXCEPT !.req.ready = TRUE]

\* parse_request after read_request_line
parse_request_line(w) ==
    IF w.exc = "MaxSizeExceeded" THEN simple_response([w EXCEPT !.exc = NoExc], <<"4","1","4"," ","R","e","q","u","e","s","t","-","U","R","I"," ","T","o","o"," ","L","o","n","g">>, <<"T","h","e"," ","R","e","q","u","e","s","t","-","U","R","I"," ","s","e","n","t"," ","w","i","t","h"," ","t","h","e"," ","r","e","q","u","e","s","t"," ","e","x","c","e","e","d","s"," ","t","h","e"," ","m","a","x","i","m","u","m"," ","a","l","l","o","w","e","d"," ","b","y","t","e","s",".">>)
    ELSE IF w.exc # NoExc \/ ~w.ret THEN w
    ELSE parse_request_headers(read_request_headers(w))

\* HTTPRequest.parse_request
parse_request(w) == parse_request_line(read_request_line([w EXCEPT !.rfile = SizeCheckWrapper(server.max_request_header_size)]))

\* The reason phrases of response_codes that the model's statuses use
reason_phrase(code) ==
    CASE code = 200 -> <<"O","K">>
      [] code = 204 -> <<"N","o"," ","C","o","n","t","e","n","t">>
      [] code = 304 -> <<"N","o","t"," ","M","o","d","i","f","i","e","d">>
      [] code = 404 -> <<"N","o","t"," ","F","o","u","n","d">>
      [] code = 500 -> <<"I","n","t","e","r","n","a","l"," ","S","e","r","v","e","r"," ","E","r","r","o","r">>
      [] OTHER -> EMPTY

\* HTTPRequest._set_status(value) for a byte-string value: the stored status, or ValueError
set_status_code(parts, code) ==
    IF ~code.ok \/ code.val < 100 \/ code.val > 599 THEN [exc |-> "ValueError", status |-> EMPTY]
    ELSE [exc |-> NoExc, status |-> str(code.val) \o SPACE \o (IF Len(parts) = 1 THEN reason_phrase(code.val) ELSE strip(parts[2]))]
set_status_parts(parts) == set_status_code(parts, intparse(parts[1], 10))
set_status(value) == set_status_parts(split1(IF value = EMPTY THEN <<"2","0","0">> ELSE value, SPACE))

\* HTTPDate() and server.server_name, which come from outside
HTTPDate == <<"<","d","a","t","e",">">>
server_name == <<"<","s","e","r","v","e","r"," ","n","a","m","e",">">>

has_key(hkeys, name) == \E i \in 1..Len(hkeys) : hkeys[i] = name

RECURSIVE header_lines(_)
header_lines(outheaders) == IF Len(outheaders) = 0 THEN EMPTY ELSE outheaders[1][1] \o COLON \o SPACE \o outheaders[1][2] \o CRLF \o header_lines(Tail(outheaders))

\* outheaders with (name, value) appended unless hkeys has the name
with_header(outheaders, hkeys, name, value) == IF has_key(hkeys, lower(name)) THEN outheaders ELSE Append(outheaders, <<name, value>>)

\* send_headers from the Date header on
send_headers_write(w, hkeys) ==
    IF w.exc # NoExc THEN w
    ELSE Return(write([w EXCEPT !.req.outheaders = with_header(with_header(@, hkeys, <<"D","a","t","e">>, HTTPDate), hkeys, <<"S","e","r","v","e","r">>, server_name)],
                      server.protocol \o SPACE \o w.req.status \o CRLF
                      \o header_lines(with_header(with_header(w.req.outheaders, hkeys, <<"D","a","t","e">>, HTTPDate), hkeys, <<"S","e","r","v","e","r">>, server_name)) \o CRLF), FALSE)

\* A send_headers that leaves the unread body on the socket
send_headers_drain_none(w, hkeys) == send_headers_write(w, hkeys)

\* send_headers from the draining of the request body on
send_headers_drain(w, hkeys) ==
    send_headers_write(IF ~w.req.close_connection /\ ~w.req.chunked_read /\ w.rfile.kind = "KnownLengthRFile" /\ w.rfile.remaining > 0
                       THEN reader_done(w, KLR_read(w.rfile, w.rbuf, peer_closed, w.rfile.remaining))
                       ELSE w, hkeys)

\* A send_headers that adds no Connection header of its own
send_headers_connection_none(w, hkeys) == send_headers_drain(w, hkeys)

\* send_headers from the Connection header on
send_headers_connection(w, hkeys) ==
    send_headers_drain(IF has_key(hkeys, <<"c","o","n","n","e","c","t","i","o","n">>) THEN w
                       ELSE IF w.req.response_protocol = HTTP11 THEN (IF w.req.close_connection THEN [w EXCEPT !.req.outheaders = Append(@, <<<<"C","o","n","n","e","c","t","i","o","n">>, <<"c","l","o","s","e">>>>)] ELSE w)
                       ELSE (IF ~w.req.close_connection THEN [w EXCEPT !.req.outheaders = Append(@, <<<<"C","o","n","n","e","c","t","i","o","n">>, <<"K","e","e","p","-","A","l","i","v","e">>>>)] ELSE w),
                       hkeys)

\* A response without framing that leaves the connection open
close_delimited_open(w) == w

\* Closing the conn is the only way to determine len: self.close_connection = True
close_delimited(w) == [w EXCEPT !.req.close_connection = TRUE]

\* A send_headers that never chunks the response
send_headers_status_unframed(w, hkeys, status) == send_headers_connection(close_delimited(w), hkeys)

\* send_headers from the status on: how the body is framed
send_headers_status(w, hkeys, status) ==
    IF ~status.ok THEN Return(simple_response(w, <<"5","0","0"," ","I","l","l","e","g","a","l"," ","S","t","a","t","u","s">>, <<"I","l","l","e","g","a","l"," ","r","e","s","p","o","n","s","e"," ","s","t","a","t","u","s"," ","f","r","o","m"," ","s","e","r","v","e","r"," ","(","'">> \o w.req.status \o <<"'"," ","i","s"," ","n","o","n","-","n","u","m","e","r","i","c",")",".">>), FALSE)
    ELSE IF status.val < 200 \/ status.val \in {204, 205, 304}
    THEN send_headers_connection([w EXCEPT !.req.close_connection = IF status.val = 413 THEN TRUE ELSE @,
                                           !.req.outheaders = SelectSeq(@, LAMBDA kv : lower(kv[1]) # <<"c","o","n","t","e","n","t","-","l","e","n","g","t","h">>),
                                           !.req.allow_message_body = FALSE], hkeys)
    ELSE IF has_key(hkeys, <<"c","o","n","t","e","n","t","-","l","e","n","g","t","h">>)
    THEN send_headers_connection([w EXCEPT !.req.close_connection = IF status.val = 413 THEN TRUE ELSE @], hkeys)
    ELSE IF w.req.response_protocol = HTTP11 /\ w.req.method # <<"H","E","A","D">>
    THEN send_headers_connection([w EXCEPT !.req.close_connection = IF status.val = 413 THEN TRUE ELSE @,
                                           !.req.chunked_write = TRUE,
                                           !.req.outheaders = Append(@, <<<<"T","r","a","n","s","f","e","r","-","E","n","c","o","d","i","n","g">>, <<"c","h","u","n","k","e","d">>>>)], hkeys)
    ELSE send_headers_connection(close_delimited(w), hkeys)

\* hkeys = [key.lower() for key, value in self.outheaders]
lower_keys(outheaders) == [i \in 1..Len(outheaders) |-> lower(outheaders[i][1])]

\* HTTPRequest.send_headers; it returns None on every path, so ret is FALSE
send_headers(w) == send_headers_status(w, lower_keys(w.req.outheaders), intparse(Take(w.req.status, 3), 10))

\* A write that frames an empty chunk like any other
req_write_frames_empty(w, chunk) ==
    IF w.req.chunked_write THEN write(w, (IF chunk = EMPTY THEN <<"0">> ELSE hex(Len(chunk))) \o CRLF \o chunk \o CRLF)
    ELSE write(w, chunk)

\* A write that gives the chunk length in decimal
req_write_decimal(w, chunk) ==
    IF w.req.chunked_write /\ chunk # EMPTY THEN write(w, str(Len(chunk)) \o CRLF \o chunk \o CRLF)
    ELSE write(w, chunk)

\* HTTPRequest.write(chunk)
req_write(w, chunk) ==
    IF w.req.chunked_write /\ chunk # EMPTY THEN write(w, hex(Len(chunk)) \o CRLF \o chunk \o CRLF)
    ELSE write(w, chunk)

\* HTTPRequest.respond up to the call of the gateway; ret tells whether the gateway is called
respond_length(w, mrbs, cl) ==
    IF ~cl.ok THEN Raise(w, "ValueError")
    ELSE IF mrbs # 0 /\ mrbs < cl.val
    THEN Return(IF ~w.req.sent_headers THEN simple_response(w, <<"4","1","3"," ","R","e","q","u","e","s","t"," ","E","n","t","i","t","y"," ","T","o","o"," ","L","a","r","g","e">>, <<"T","h","e"," ","e","n","t","i","t","y"," ","s","e","n","t"," ","w","i","t","h"," ","t","h","e"," ","r","e","q","u","e","s","t"," ","e","x","c","e","e","d","s"," ","t","h","e"," ","m","a","x","i","m","u","m"," ","a","l","l","o","w","e","d"," ","b","y","t","e","s",".">>) ELSE w, FALSE)
    ELSE Return([w EXCEPT !.rfile = KnownLengthRFile(cl.val)], TRUE)

\* A respond() that installs no body reader
respond_begin_keep(w) == Return(w, TRUE)

\* HTTPRequest.respond from its start to the call of the gateway
respond_begin(w) ==
    IF w.req.chunked_read THEN Return([w EXCEPT !.rfile = ChunkedRFile(server.max_request_body_size)], TRUE)
    ELSE respond_length(w, server.max_request_body_size, content_length(w.req.inheaders))

\* The terminating chunk of a chunked response
LastChunk == <<"0","\r","\n","\r","\n">>

\* if self.chunked_write: write(self.conn.wfile, "0\r\n\r\n")
respond_last_chunk(w) == IF w.req.chunked_write THEN write(w, LastChunk) ELSE w

\* if not self.send_headers(): self.close_connection = True; return
respond_sent(w) ==
    IF w.exc # NoExc THEN w
    ELSE IF ~w.ret THEN [w EXCEPT !.req.close_connection = TRUE]
    ELSE respond_last_chunk(w)

\* HTTPRequest.respond from the return of the gateway on
respond_end(w) ==
    IF w.req.ready /\ ~w.req.sent_headers THEN respond_sent(send_headers([w EXCEPT !.req.sent_headers = TRUE]))
    ELSE respond_last_chunk(w)

\* The except clauses of HTTPConnection.communicate for an exception raised by
\* parse_request or respond.  The result's exc is an exception that leaves communicate.
caught(w) == [w EXCEPT !.exc = NoExc, !.msg = EMPTY]

MsgNoSSL == <<"T","h","e"," ","c","l","i","e","n","t"," ","s","e","n","t"," ","a"," ","p","l","a","i","n"," ","H","T","T","P"," ","r","e","q","u","e","s","t",","," ","b","u","t"," ","t","h","i","s"," ","s","e","r","v","e","r"," ","o","n","l","y"," ","s","p","e","a","k","s"," ","H","T","T","P","S"," ","o","n"," ","t","h","i","s"," ","p","o","r","t",".">>

\* A handler of NoSSLError that leaves linger as it is
no_ssl_written_close(w) == w

\* self.linger = True, reached when simple_response did not raise
no_ssl_written(w) == IF w.exc # NoExc THEN w ELSE [w EXCEPT !.linger = TRUE]

\* except errors.NoSSLError
no_ssl_error(w) == IF ~w.req.sent_headers THEN no_ssl_written(simple_response(w, BadRequest, MsgNoSSL)) ELSE w

\* A handler that answers a timeout only in the middle of a request
communicate_timeout_started(w, request_seen) ==
    IF w.req.started_request /\ ~w.req.sent_headers THEN simple_response(w, <<"4","0","8"," ","R","e","q","u","e","s","t"," ","T","i","m","e","o","u","t">>, EMPTY) ELSE w

\* A handler that never answers a timeout
communicate_timeout_silent(w, request_seen) == w

\* The except clause of communicate for a socket.error that is a timeout
communicate_timeout(w, request_seen) ==
    IF (~request_seen \/ w.req.started_request) /\ ~w.req.sent_headers THEN simple_response(w, <<"4","0","8"," ","R","e","q","u","e","s","t"," ","T","i","m","e","o","u","t">>, EMPTY) ELSE w

\* Except clauses that write the 500 whether or not the headers were sent
communicate_except_always(w, request_seen) ==
    IF w.exc = Timeout THEN communicate_timeout(caught(w), request_seen)
    ELSE IF w.exc = SockErrIgnored THEN caught(w)
    ELSE IF w.exc \in {"KeyboardInterrupt", "SystemExit"} THEN w
    ELSE IF w.exc = "FatalSSLAlert" THEN caught(w)
    ELSE IF w.exc = "NoSSLError" THEN no_ssl_error(caught(w))
    ELSE simple_response(caught(w), <<"5","0","0"," ","I","n","t","e","r","n","a","l"," ","S","e","r","v","e","r"," ","E","r","r","o","r">>, EMPTY)

\* The except clauses of HTTPConnection.communicate
communicate_except(w, request_seen) ==
    IF w.exc = Timeout THEN communicate_timeout(caught(w), request_seen)
    ELSE IF w.exc = SockErrIgnored THEN caught(w)
    ELSE IF w.exc \in {"KeyboardInterrupt", "SystemExit"} THEN w
    ELSE IF w.exc = "FatalSSLAlert" THEN caught(w)
    ELSE IF w.exc = "NoSSLError" THEN no_ssl_error(caught(w))
    ELSE IF ~w.req.sent_headers THEN simple_response(caught(w), <<"5","0","0"," ","I","n","t","e","r","n","a","l"," ","S","e","r","v","e","r"," ","E","r","r","o","r">>, EMPTY)
    ELSE caught(w)

(***************************************************************************)
(* The gateway.  server.gateway(req).respond() is the application: it may  *)
(* read the request body from req.rfile, set req.status, append to         *)
(* req.outheaders, have the header block sent, write body chunks with      *)
(* req.write, and then returns or raises.  It is one program for every     *)
(* request of the connection: what it does for the first request is        *)
(* recorded in gw.script and done again for the later ones.                *)
(***************************************************************************)
\* How many calls the gateway makes for one request before it returns or raises
MaxGatewayOps == 3

GatewayStatuses == {<<"2","0","4"," ","N","o"," ","C","o","n","t","e","n","t">>}
GatewayHeaders == {<<<<"C","o","n","t","e","n","t","-","L","e","n","g","t","h">>, <<"2">>>>}
GatewayChunks == {<<"o","k">>, EMPTY}
GatewayReadSizes == {None, 1}

\* op is what the gateway does next: the script's next operation, or any operation
\* while the script is still being written
GatewayDoes(op) ==
    /\ pc = "gateway"
    /\ IF gw.ip <= Len(gw.script) THEN op = gw.script[gw.ip]
       ELSE ~gw.fixed /\ (op.name \in {"return", "raise"} \/ Len(gw.script) < MaxGatewayOps)

GatewayDid(op) == [gw EXCEPT !.script = IF gw.ip <= Len(gw.script) THEN @ ELSE Append(@, op), !.ip = @ + 1,
                             !.fixed = @ \/ op.name \in {"return", "raise"}]

(***************************************************************************)
(* The steps of HTTPConnection.communicate.                                *)
(***************************************************************************)
Tagged(out, n) == [i \in 1..Len(out) |-> [n |-> n, data |-> out[i]]]

\* A driver that loops whatever close_connection says
AfterRespondLoop(r) == "parse"

\* if req.close_connection: return
AfterRespond(r) == IF r.close_connection THEN "done" ELSE "parse"

\* A driver that responds to a request that is not ready
AfterParseAnyway(r) == "respond"

\* A driver that parses the next request before it responds to this one
AfterParseAhead(r) == IF ~r.ready THEN "done" ELSE "parse"

\* if not req.ready: return
AfterParse(r) == IF ~r.ready THEN "done" ELSE "respond"

\* Where communicate stands after the call made at position at returned w
AfterCall(w, at) ==
    CASE at = "parse" -> AfterParse(w.req)
      [] at = "respond" -> IF w.ret THEN "gateway" ELSE AfterRespond(w.req)
      [] at = "gateway" -> "gateway"
      [] at = "return" -> AfterRespond(w.req)

\* What a step leaves behind: w is the world the method called at position at returned,
\* e that world after the except clauses of communicate, pcnext where communicate stands
Left(w, e, at, n, pcnext) ==
    /\ req' = e.req
    /\ rfile' = e.rfile
    /\ rbuf' = e.rbuf
    /\ sent' = sent \o Tagged(e.out, n)
    /\ pc' = pcnext
    /\ conn' = [conn EXCEPT !.linger = e.linger, !.request_seen = @ \/ at # "parse"]
    /\ hist' = [hist EXCEPT !.consumed = IF pc = "parse" THEN Len(rbuf) - Len(w.rbuf) ELSE @,
                            !.responded = IF pc # "parse" /\ pcnext # "gateway" THEN @ + 1 ELSE @,
                            !.at = at, !.raised = w.exc, !.escaped = e.exc]

Handled(w, e, at, n) == Left(w, e, at, n, IF w.exc = NoExc THEN AfterCall(w, at) ELSE IF e.exc # NoExc THEN "raised" ELSE "done")

Finish(w, at, n, request_seen) == Handled(w, IF w.exc # NoExc THEN communicate_except(w, request_seen) ELSE w, at, n)

\* req = HTTPRequest(server, conn); req.parse_request(); if not req.ready: return
ParseRequest ==
    /\ pc = "parse"
    /\ Finish(parse_request([World EXCEPT !.req = NewRequest, !.rfile = NoRFile]), "parse", nreq + 1, conn.request_seen)
    /\ nreq' = nreq + 1
    /\ gw' = [gw EXCEPT !.ip = 0, !.got = EMPTY]
    /\ UNCHANGED <<server, peer_closed, sock_err, last>>

\* request_seen = True; req.respond() up to the call of the gateway
Respond ==
    /\ pc = "respond"
    /\ Finish(respond_begin(World), "respond", nreq, TRUE)
    /\ gw' = [gw EXCEPT !.ip = 1]
    /\ UNCHANGED <<server, peer_closed, sock_err, nreq, last>>

\* A step of the gateway that calls into the request: w is what the call returned
GatewayCall(op, w) ==
    /\ GatewayDoes(op)
    /\ Finish(w, "gateway", nreq, TRUE)
    /\ gw' = [GatewayDid(op) EXCEPT !.got = IF op.name = "read" /\ w.exc = NoExc THEN @ \o w.data ELSE @]
    /\ UNCHANGED <<server, peer_closed, sock_err, nreq, last>>

\* req.rfile.read(size)
rfile_read(w, size) == reader_done(w, IF w.rfile.kind = "ChunkedRFile" THEN CRF_read(w.rfile, w.rbuf, peer_closed, size) ELSE KLR_read(w.rfile, w.rbuf, peer_closed, size))

GatewayRead == pc = "gateway" /\ \E size \in GatewayReadSizes : GatewayCall([name |-> "read", arg |-> <<size>>], rfile_read(World, size))

\* req.status = status
status_set(w, s) == IF s.exc # NoExc THEN Raise(w, s.exc) ELSE [w EXCEPT !.req.status = s.status]

GatewaySetStatus == \E status \in GatewayStatuses : ~req.sent_headers /\ GatewayCall([name |-> "status", arg |-> status], status_set(World, set_status(status)))

\* req.outheaders.append(header)
GatewayAddHeader == \E header \in GatewayHeaders : ~req.sent_headers /\ GatewayCall([name |-> "header", arg |-> header], [World EXCEPT !.req.outheaders = Append(@, header)])

\* if not req.sent_headers: req.sent_headers = True; req.send_headers()
GatewaySendHeaders == ~req.sent_headers /\ GatewayCall([name |-> "send_headers", arg |-> EMPTY], send_headers([World EXCEPT !.req.sent_headers = TRUE]))

\* req.write(chunk)
GatewayWrite == pc = "gateway" /\ \E chunk \in GatewayChunks : GatewayCall([name |-> "write", arg |-> chunk], req_write(World, chunk))

\* The gateway raises an exception of its own
GatewayRaise == pc = "gateway" /\ GatewayCall([name |-> "raise", arg |-> EMPTY], Raise(World, "Exception"))

\* The gateway returns: the rest of respond(), then "if req.close_connection: return"
GatewayReturn ==
    /\ GatewayDoes([name |-> "return", arg |-> EMPTY])
    /\ Finish(respond_end(World), "return", nreq, TRUE)
    /\ gw' = GatewayDid([name |-> "return", arg |-> EMPTY])
    /\ UNCHANGED <<server, peer_closed, sock_err, nreq, last>>

\* The worker that ran communicate() closes the connection: HTTPConnection.close
Close ==
    /\ pc \in {"done", "raised"}
    /\ pc' = "closed"
    /\ conn' = [conn EXCEPT !.closed = ~conn.linger]
    /\ UNCHANGED <<server, rbuf, peer_closed, sock_err, sent, req, rfile, nreq, gw, last, hist>>

Next == ParseRequest \/ Respond \/ GatewayRead \/ GatewaySetStatus \/ GatewayAddHeader \/ GatewaySendHeaders \/ GatewayWrite \/ GatewayRaise \/ GatewayReturn \/ Close

(***************************************************************************)
(* The connections the model serves: what the peer sends, and the server.  *)
(***************************************************************************)
NewConnection == [request_seen |-> FALSE, linger |-> FALSE, closed |-> FALSE]
NoLast == [op |-> "none", size |-> 0, data |-> EMPTY, calls |-> 0, exc |-> NoExc, before |-> NoRFile]
NewGateway == [script |-> << >>, ip |-> 0, fixed |-> FALSE, got |-> EMPTY]
NewHist(wire) == [wire0 |-> wire, responded |-> 0, consumed |-> 0, at |-> "none", raised |-> NoExc, escaped |-> NoExc,
                  length |-> 0, tail |-> EMPTY, written |-> << >>, returned |-> EMPTY]

RequestLine(method, uri, protocol) == method \o SPACE \o uri \o SPACE \o protocol \o CRLF
Header(name, value) == name \o COLON \o SPACE \o value \o CRLF

GetA11 == RequestLine(<<"G","E","T">>, <<"/","a">>, HTTP11) \o Header(<<"H","o","s","t">>, <<"h">>) \o CRLF
GetB11Close == RequestLine(<<"G","E","T">>, <<"/","b">>, HTTP11) \o Header(<<"H","o","s","t">>, <<"h">>) \o Header(<<"C","o","n","n","e","c","t","i","o","n">>, <<"c","l","o","s","e">>) \o CRLF
Get10 == RequestLine(<<"G","E","T">>, <<"/">>, HTTP10) \o CRLF
Get10KeepAlive == RequestLine(<<"G","E","T">>, <<"/">>, HTTP10) \o Header(<<"C","o","n","n","e","c","t","i","o","n">>, <<"K","e","e","p","-","A","l","i","v","e">>) \o CRLF
Head11 == RequestLine(<<"H","E","A","D">>, <<"/">>, HTTP11) \o CRLF
PostLength == RequestLine(<<"P","O","S","T">>, <<"/">>, HTTP11) \o Header(<<"C","o","n","t","e","n","t","-","L","e","n","g","t","h">>, <<"3">>) \o CRLF \o <<"a","b","c">>
PostChunked == RequestLine(<<"P","O","S","T">>, <<"/">>, HTTP11) \o Header(<<"T","r","a","n","s","f","e","r","-","E","n","c","o","d","i","n","g">>, <<"c","h","u","n","k","e","d">>) \o CRLF \o <<"3","\r","\n","a","b","c","\r","\n","0","\r","\n","\r","\n">>
PostExpect == RequestLine(<<"P","O","S","T">>, <<"/">>, HTTP11) \o Header(<<"C","o","n","t","e","n","t","-","L","e","n","g","t","h">>, <<"3">>) \o Header(<<"E","x","p","e","c","t">>, <<"1","0","0","-","c","o","n","t","i","n","u","e">>) \o CRLF \o <<"a","b","c">>

Requests == {GetA11, GetB11Close, Get10, Get10KeepAlive, Head11, PostLength, PostChunked, PostExpect}
Wires == Requests \cup {a \o b : a \in {GetA11, Get10KeepAlive, PostLength, PostChunked, PostExpect}, b \in {GetB11Close}} \cup {GetB11Close \o GetA11}

Servers == {[protocol |-> p, max_request_header_size |-> 0, max_request_body_size |-> 0, ssl_adapter |-> FALSE] : p \in {HTTP10, HTTP11}}

Init ==
    /\ server \in Servers
    /\ rbuf \in Wires
    /\ peer_closed \in BOOLEAN
    /\ sock_err = NoExc
    /\ sent = << >>
    /\ req = NewRequest
    /\ rfile = NoRFile
    /\ conn = NewConnection
    /\ pc = "parse"
    /\ nreq = 0
    /\ gw = NewGateway
    /\ last = NoLast
    /\ hist = NewHist(rbuf)

Spec == Init /\ [][Next]_vars


(***************************************************************************)
(* What a peer sees of the connection.                                     *)
(***************************************************************************)
\* The sends request object n made, in order
SendsOf(n) == SelectSeq(sent, LAMBDA s : s.n = n)

\* A send that begins with a status line: a header block or a canned response
IsHeaderBlock(d) == startswith(d, server.protocol \o SPACE)
HeaderBlocksOf(n) == SelectSeq(SendsOf(n), LAMBDA s : IsHeaderBlock(s.data))

\* The status line and the header lines of a send that begins with a status line
HeadOf(d) == Take(d, find(d, CRLF \o CRLF) + 1)
Carries(d, line) == contains(HeadOf(d), CRLF \o line \o CRLF)
CarriesHeader(d, name) == contains(HeadOf(d), CRLF \o name \o COLON)
StatusCodeOf(d) == intparse(Slice(d, Len(server.protocol) + 2, Len(server.protocol) + 4), 10).val

\* The response to the current request is over: communicate has left respond()
ResponseOver == nreq > 0 /\ pc \in {"parse", "done", "raised", "closed"} /\ Len(HeaderBlocksOf(nreq)) > 0
Response == HeaderBlocksOf(nreq)[1].data
LastSend == SendsOf(nreq)[Len(SendsOf(nreq))].data

CarriesContentLength == CarriesHeader(Response, <<"C","o","n","t","e","n","t","-","L","e","n","g","t","h">>)
ChunkedTerminated == Carries(Response, <<"T","r","a","n","s","f","e","r","-","E","n","c","o","d","i","n","g",":"," ","c","h","u","n","k","e","d">>) /\ LastSend = LastChunk
ClosedAfter == pc \in {"done", "raised", "closed"}
BodyForbidden == StatusCodeOf(Response) < 200 \/ StatusCodeOf(Response) \in {204, 205, 304}

\* respond() returned to communicate() without an exception after the gateway returned
RespondReturned == hist.at = "return" /\ hist.raised = NoExc

(***************************************************************************)
(* Claims about the connection driver and the response framing.            *)
(***************************************************************************)
\* C1: communicate() starts to parse request N+1 only after respond() for request N
\* has returned, and the sends on the wire are in request order.
C1_Serialized ==
    [][/\ nreq' # nreq => pc = "parse" /\ nreq' = nreq + 1 /\ hist.responded = nreq
       /\ \A i \in 1..Len(sent') : \A j \in i..Len(sent') : sent'[i].n <= sent'[j].n]_vars

C1_Witness == nreq = 2 /\ pc = "closed" /\ Len(SendsOf(1)) > 0 /\ Len(SendsOf(2)) > 0 /\ rbuf = EMPTY

\* C2 as claimed: after any response exactly one of Content-Length, terminated
\* chunked framing and closing of the connection holds.
C2_ExactlyOne ==
    ResponseOver => \/ CarriesContentLength /\ ~ChunkedTerminated /\ ~ClosedAfter
                    \/ ~CarriesContentLength /\ ChunkedTerminated /\ ~ClosedAfter
                    \/ ~CarriesContentLength /\ ~ChunkedTerminated /\ ClosedAfter

\* C2 as the code has it: after a response whose status allows a body, at least one
\* of Content-Length, terminated chunked framing and closing of the connection holds
\* (a response with Content-Length may also close the connection); a response whose
\* status forbids a body carries neither Content-Length nor Transfer-Encoding.
C2_Framed ==
    ResponseOver => IF BodyForbidden THEN ~CarriesContentLength /\ ~CarriesHeader(Response, <<"T","r","a","n","s","f","e","r","-","E","n","c","o","d","i","n","g">>)
                    ELSE CarriesContentLength \/ ChunkedTerminated \/ ClosedAfter

C2_Witness == ResponseOver /\ ~BodyForbidden /\ ~CarriesContentLength /\ ~ChunkedTerminated /\ ClosedAfter /\ req.response_protocol = HTTP10

\* C3: when chunked_write is engaged, respond() has written the terminating chunk
\* 0 CRLF CRLF by the time it returns, also when it sent the headers itself.
C3_Terminated == RespondReturned /\ req.chunked_write => LastSend = LastChunk

C3_Witness == RespondReturned /\ req.chunked_write /\ IsHeaderBlock(LastSend) /\ Carries(LastSend, <<"T","r","a","n","s","f","e","r","-","E","n","c","o","d","i","n","g",":"," ","c","h","u","n","k","e","d">>)

\* C4: when the gateway returned normally, the header block was sent exactly once and
\* before any body bytes that request.write(chunk) put on the wire.
C4_HeadersFirst ==
    RespondReturned => /\ req.sent_headers
                       /\ Len(HeaderBlocksOf(nreq)) = 1
                       /\ IsHeaderBlock(SendsOf(nreq)[1].data)

C4_Witness == RespondReturned /\ Len(SendsOf(nreq)) = 2 /\ SendsOf(nreq)[1].data = <<"o","k">> /\ IsHeaderBlock(SendsOf(nreq)[2].data)

\* C5: communicate() parses another request only when the request before it was
\* ready and left close_connection false.
C5_LoopsOnlyWhenOpen == [][nreq' # nreq /\ nreq > 0 => req.ready /\ ~req.close_connection]_vars

C5_Witness == pc = "closed" /\ nreq = 1 /\ req.ready /\ req.close_connection /\ rbuf = GetA11

(***************************************************************************)
(* The header-size limit.  The server has max_request_header_size set (or  *)
(* 0), the peer sends requests with short and long request lines and       *)
(* header blocks, and the gateway at most has the header block sent.        *)
(***************************************************************************)
SmallLimit == 40
LargeLimit == 300

Pad(n) == [i \in 1..n |-> "a"]

LongUri == RequestLine(<<"G","E","T">>, <<"/">> \o Pad(SmallLimit + 10), HTTP11) \o Header(<<"H","o","s","t">>, <<"h">>) \o CRLF
LongHeader10 == RequestLine(<<"G","E","T">>, <<"/">>, HTTP10) \o Header(<<"X","-","P","a","d">>, Pad(SmallLimit)) \o CRLF
PiecesUri == RequestLine(<<"G","E","T">>, <<"/">> \o Pad(ReadlineChunk + 10), HTTP11) \o Header(<<"H","o","s","t">>, <<"h">>) \o CRLF
PiecesHeader == RequestLine(<<"G","E","T">>, <<"/","a">>, HTTP11) \o Header(<<"X","-","P","a","d">>, Pad(LargeLimit)) \o CRLF
HugeUri == RequestLine(<<"G","E","T">>, <<"/">> \o Pad(LargeLimit), HTTP11) \o Header(<<"H","o","s","t">>, <<"h">>) \o CRLF

LimitWires == {GetA11, GetA11 \o GetA11, GetB11Close, GetA11 \o GetB11Close, Get10, LongUri, LongHeader10, PiecesUri, PiecesHeader, HugeUri}
LimitServers == {[protocol |-> p, max_request_header_size |-> m, max_request_body_size |-> 0, ssl_adapter |-> FALSE] : p \in {HTTP10, HTTP11}, m \in {0, SmallLimit, LargeLimit}}

InitLimits ==
    /\ server \in LimitServers
    /\ rbuf \in LimitWires
    /\ peer_closed \in BOOLEAN
    /\ sock_err = NoExc
    /\ sent = << >>
    /\ req = NewRequest
    /\ rfile = NoRFile
    /\ conn = NewConnection
    /\ pc = "parse"
    /\ nreq = 0
    /\ gw = NewGateway
    /\ last = NoLast
    /\ hist = NewHist(rbuf)

NextLimits == ParseRequest \/ Respond \/ GatewaySendHeaders \/ GatewayReturn \/ Close

SpecLimits == InitLimits /\ [][NextLimits]_vars

\* The length of the request line and of the request line with the header block in
\* what the peer sent first
LineLength == find(hist.wire0, LF)
HeadLength == find(hist.wire0, CRLF \o CRLF) + 3
SentHTTP11 == endswith(Take(hist.wire0, LineLength), HTTP11 \o CRLF)

\* parse_request answered the first request with the canned response of this status
\* and gave the request up
Tripped(status) ==
    /\ ~req.ready /\ req.close_connection
    /\ IF pc = "closed" THEN conn.closed ELSE pc = "done"
    /\ Len(SendsOf(1)) = 1 /\ startswith(SendsOf(1)[1].data, server.protocol \o SPACE \o status \o CRLF)

\* C9: a request that parse_request marked ready took at most max_request_header_size
\* bytes from the connection reader for its request line and header block, counted
\* for that request alone; with max_request_header_size = 0 no request is refused
\* for its size.
C9_HeaderBytesBounded ==
    /\ nreq > 0 /\ req.ready /\ server.max_request_header_size > 0 => hist.consumed <= server.max_request_header_size
    /\ server.max_request_header_size = 0 => \A i \in 1..Len(sent) : IsHeaderBlock(sent[i].data) => StatusCodeOf(sent[i].data) \notin {413, 414}
    /\ nreq = 1 /\ server.max_request_header_size = 0 => req.ready /\ hist.consumed = HeadLength

C9_Witness ==
    /\ nreq = 2 /\ req.ready /\ server.max_request_header_size = SmallLimit
    /\ hist.consumed <= SmallLimit /\ Len(hist.wire0) - Len(rbuf) > SmallLimit

MaxContentLength == 3

BodyStreams == {<<"a","b","c">>, <<"a","b","c">> \o GetA11, <<"a","\n","b","c">> \o GetA11, <<"a","\n","b","\n">>, EMPTY}
ReadSizes == {None, -1, 0, 1, 2, MaxContentLength + 1}
SizeHints == {0, 1, MaxContentLength + 1}

InitKnownLength ==
    /\ server \in {s \in Servers : s.protocol = HTTP11}
    /\ rbuf \in BodyStreams
    /\ peer_closed \in BOOLEAN
    /\ sock_err = NoExc
    /\ sent = << >>
    /\ req = NewRequest
    /\ \E cl \in 0..MaxContentLength :
          /\ rfile = KnownLengthRFile(cl)
          /\ hist = [NewHist(rbuf) EXCEPT !.length = cl]
    /\ conn = NewConnection
    /\ pc = "reading"
    /\ nreq = 0
    /\ gw = NewGateway
    /\ last = NoLast

\* A call of a reader method returned r
Called(op, size, r) ==
    /\ rfile' = r.rf
    /\ rbuf' = r.buf
    /\ last' = [op |-> op, size |-> size, data |-> r.data, calls |-> r.calls, exc |-> r.exc, before |-> rfile]
    /\ hist' = [hist EXCEPT !.returned = IF r.exc = NoExc THEN @ \o r.data ELSE @]
    /\ UNCHANGED <<server, peer_closed, sock_err, sent, req, conn, pc, nreq, gw>>

KnownLengthRead == pc = "reading" /\ rfile.kind = "KnownLengthRFile" /\ \E size \in ReadSizes : Called("read", size, KLR_read(rfile, rbuf, peer_closed, size))
KnownLengthReadline == pc = "reading" /\ rfile.kind = "KnownLengthRFile" /\ \E size \in ReadSizes : Called("readline", size, KLR_readline(rfile, rbuf, peer_closed, size))
KnownLengthReadlines == pc = "reading" /\ rfile.kind = "KnownLengthRFile" /\ \E sizehint \in SizeHints : Called("readlines", sizehint, KLR_readlines(rfile, rbuf, peer_closed, sizehint))
KnownLengthNext == pc = "reading" /\ rfile.kind = "KnownLengthRFile" /\ Called("__next__", None, KLR_next(rfile, rbuf, peer_closed))

NextKnownLength == KnownLengthRead \/ KnownLengthReadline \/ KnownLengthReadlines \/ KnownLengthNext

SpecKnownLength == InitKnownLength /\ [][NextKnownLength]_vars

\* C6: a KnownLengthRFile created with content_length L never returns more than L
\* bytes in total, whatever is called with whatever size (remaining stays >= 0), and
\* a call made when remaining is 0 returns empty without calling the inner stream.
C6_NeverBeyondLength ==
    /\ rfile.remaining >= 0
    /\ Len(hist.returned) <= hist.length
    /\ last.op # "none" /\ last.before.remaining = 0 => last.data = EMPTY /\ last.calls = 0

C6_Witness == last.op = "__next__" /\ last.before.remaining = 0 /\ last.calls = 1 /\ last.data = RequestLine(<<"G","E","T">>, <<"/","a">>, HTTP11) /\ rfile.remaining < 0

(***************************************************************************)
(* Chunked framing, written and read back: chunks are written through      *)
(* HTTPRequest.write with chunked_write engaged and ended as respond()     *)
(* ends them; the bytes sent arrive, followed by what the peer sends next, *)
(* at a connection whose reader is a ChunkedRFile.                         *)
(***************************************************************************)
MaxChunks == 2

Chunks == {EMPTY, <<"o","k">>, <<"a","\r","\n","b","\n">>, <<"0","1","2","3","4","5","6","7","8","9","a","b","c","d","e","f">>, <<"0","1","2","3","4","5","6","7","8","9","a","b","c","d","e","f","g","h","i","j","k","l","m","n","o","p">>}
ChunkedReadSizes == {None, 1, 4}

RECURSIVE Flatten(_)
Flatten(parts) == IF Len(parts) = 0 THEN EMPTY ELSE parts[1] \o Flatten(Tail(parts))

InitChunked ==
    /\ server \in {s \in Servers : s.protocol = HTTP11}
    /\ rbuf = EMPTY
    /\ peer_closed \in BOOLEAN
    /\ sock_err = NoExc
    /\ sent = << >>
    /\ req = [NewRequest EXCEPT !.chunked_write = TRUE]
    /\ rfile = ChunkedRFile(0)
    /\ conn = NewConnection
    /\ pc = "writing"
    /\ nreq = 0
    /\ gw = NewGateway
    /\ last = NoLast
    /\ hist = NewHist(EMPTY)

\* request.write(chunk) with chunked_write engaged
ChunkedWrite ==
    /\ pc = "writing" /\ Len(hist.written) < MaxChunks
    /\ \E chunk \in Chunks :
          /\ sent' = sent \o Tagged(req_write(World, chunk).out, nreq)
          /\ hist' = [hist EXCEPT !.written = Append(@, chunk)]
    /\ UNCHANGED <<server, rbuf, peer_closed, sock_err, req, rfile, conn, pc, nreq, gw, last>>

\* The end of respond(): the terminating chunk.  What was sent is what the reading
\* side has on its connection, followed by what its peer sends next.
ChunkedEnd ==
    /\ pc = "writing"
    /\ sent' = sent \o Tagged(respond_last_chunk(World).out, nreq)
    /\ \E tail \in {EMPTY, GetA11} :
          /\ rbuf' = Flatten([i \in 1..Len(sent') |-> sent'[i].data]) \o tail
          /\ hist' = [hist EXCEPT !.wire0 = rbuf', !.tail = tail]
    /\ pc' = "reading"
    /\ UNCHANGED <<server, peer_closed, sock_err, req, rfile, conn, nreq, gw, last>>

\* ChunkedRFile.read(size)
ChunkedRead == pc = "reading" /\ rfile.kind = "ChunkedRFile" /\ \E size \in ChunkedReadSizes : Called("read", size, CRF_read(rfile, rbuf, peer_closed, size))

NextChunked == ChunkedWrite \/ ChunkedEnd \/ ChunkedRead

SpecChunked == InitChunked /\ [][NextChunked]_vars

\* C7: once a chunked body has been read to its end (closed), bytes_read counts the
\* payload and all the framing consumed, the CRLF after each chunk included, and the
\* connection stands at the first byte of what follows the body.
C7_FramingCounted ==
    pc = "reading" /\ rfile.closed
    => /\ rfile.bytes_read = Len(hist.wire0) - Len(rbuf)
       /\ rfile.bytes_read = Len(hist.wire0) - Len(hist.tail)
       /\ rbuf = hist.tail

C7_Witness ==
    /\ pc = "reading" /\ rfile.closed /\ hist.written = <<<<"o","k">>>> /\ hist.tail = GetA11
    /\ rbuf = CRLF \o GetA11 /\ rfile.bytes_read = 8 /\ Len(hist.wire0) - Len(rbuf) = 10

\* C8: reading the bytes that chunked writes and the terminating chunk put on the wire
\* through ChunkedRFile.read() returns the concatenation of the chunks written, also
\* when chunks contain CR or LF; no read fails and none returns bytes out of place.
C8_RoundTrip ==
    pc = "reading"
    => /\ last.exc = NoExc
       /\ startswith(Flatten(hist.written), hist.returned)
       /\ rfile.closed => hist.returned = Flatten(hist.written)
       /\ last.op = "read" /\ last.size = None /\ last.before = ChunkedRFile(0) => last.data = Flatten(hist.written)

C8_Witness ==
    /\ pc = "reading" /\ rfile.closed /\ Len(hist.written) = MaxChunks
    /\ hist.written[1] = <<"a","\r","\n","b","\n">> /\ Len(hist.written[2]) > 16
    /\ hist.returned = Flatten(hist.written)

(***************************************************************************)
(* Claims about the protocol versions and the body reader.                 *)
(***************************************************************************)
VersionLe(a, b) == a[1] < b[1] \/ (a[1] = b[1] /\ a[2] <= b[2])
VersionOf(p) == protocol_version(p).v

\* The current request passed read_request_line
LineParsed == nreq > 0 /\ req.request_protocol # PyNone

\* C11 as claimed: response protocol <= request protocol <= server protocol.
C11_Chain ==
    LineParsed => /\ VersionLe(VersionOf(req.response_protocol), VersionOf(req.request_protocol))
                  /\ VersionLe(VersionOf(req.request_protocol), VersionOf(server.protocol))

\* C11 as the code has it: the response protocol is the lower of the request's and
\* the server's protocol; the request's protocol may be above the server's.
C11_LowestCommon ==
    LineParsed => /\ VersionLe(VersionOf(req.response_protocol), VersionOf(req.request_protocol))
                  /\ VersionLe(VersionOf(req.response_protocol), VersionOf(server.protocol))
                  /\ req.response_protocol \in {req.request_protocol, server.protocol}

C11_Witness == LineParsed /\ req.request_protocol = HTTP11 /\ server.protocol = HTTP10 /\ req.response_protocol = HTTP10 /\ req.ready

\* The Content-Length the peer declared in the current request, 0 if it declared none
DeclaredLength == IF <<"C","o","n","t","e","n","t","-","L","e","n","g","t","h">> \in DOMAIN req.inheaders THEN intparse(req.inheaders[<<"C","o","n","t","e","n","t","-","L","e","n","g","t","h">>], 10).val ELSE 0

\* C12: when the gateway is called, and while it runs, request.rfile is a ChunkedRFile
\* if chunked_read is set and else a KnownLengthRFile over the declared Content-Length,
\* never the SizeCheckWrapper of the header phase.
C12_BodyReader ==
    pc = "gateway" => /\ rfile.kind = IF req.chunked_read THEN "ChunkedRFile" ELSE "KnownLengthRFile"
                      /\ hist.at = "respond" => rfile = IF req.chunked_read THEN ChunkedRFile(server.max_request_body_size) ELSE KnownLengthRFile(DeclaredLength)

C12_Witness == pc = "gateway" /\ hist.at = "respond" /\ ~req.chunked_read /\ rfile = KnownLengthRFile(3) /\ hist.consumed = Len(PostLength) - 3

\* The interim response of the server to Expect: 100-continue
Continue100 == server.protocol \o <<" ","1","0","0"," ","C","o","n","t","i","n","u","e">> \o CRLF \o CRLF
Expecting == <<"E","x","p","e","c","t">> \in DOMAIN req.inheaders /\ req.inheaders[<<"E","x","p","e","c","t">>] = <<"1","0","0","-","c","o","n","t","i","n","u","e">>

\* C16: when the gateway is called for a request that carries Expect: 100-continue,
\* the first bytes sent for that request are "<server.protocol> 100 Continue" and an
\* empty line, sent before the call.
C16_ContinueBeforeGateway ==
    (pc = "gateway" /\ Expecting) => /\ Len(SendsOf(nreq)) >= 1
                                     /\ SendsOf(nreq)[1].data = Continue100
                                     /\ hist.at = "respond" => Len(SendsOf(nreq)) = 1

C16_Witness == pc = "gateway" /\ hist.at = "respond" /\ Expecting /\ server.protocol = HTTP10 /\ nreq = 1 /\ sent = <<[n |-> 1, data |-> <<"H","T","T","P","/","1",".","0"," ","1","0","0"," ","C","o","n","t","i","n","u","e">> \o CRLF \o CRLF]>>

(***************************************************************************)
(* read_headers on its own: up to MaxHeaderLines header lines, with        *)
(* repeated names in different spellings and with empty values, followed   *)
(* by the empty line, are read into an empty dict.                         *)
(***************************************************************************)
MaxHeaderLines == 3

HeaderNames == {<<"A","c","c","e","p","t">>, <<"a","c","c","e","p","t">>, <<"X","-","F","o","o">>, <<"x","-","f","o","o">>}
HeaderValues == {EMPTY, <<"a">>, <<"b">>}
HeaderLines == UNION {[1..n -> HeaderNames \X HeaderValues] : n \in 1..MaxHeaderLines}

RECURSIVE HeaderWire(_)
HeaderWire(lines) == IF Len(lines) = 0 THEN CRLF ELSE Header(lines[1][1], lines[1][2]) \o HeaderWire(Tail(lines))

InitHeaders ==
    /\ server \in {s \in Servers : s.protocol = HTTP11}
    /\ \E lines \in HeaderLines : rbuf = HeaderWire(lines) /\ hist = [NewHist(rbuf) EXCEPT !.written = lines]
    /\ peer_closed = FALSE
    /\ sock_err = NoExc
    /\ sent = << >>
    /\ req = NewRequest
    /\ rfile = SizeCheckWrapper(0)
    /\ conn = NewConnection
    /\ pc = "headers"
    /\ nreq = 0
    /\ gw = NewGateway
    /\ last = NoLast

\* read_headers(self.rfile, self.inheaders) has returned or raised
HeadersRead(w) ==
    /\ req' = w.req
    /\ rfile' = w.rfile
    /\ rbuf' = w.rbuf
    /\ last' = [NoLast EXCEPT !.op = "read_headers", !.exc = w.exc]
    /\ pc' = "done"
    /\ UNCHANGED <<server, peer_closed, sock_err, sent, conn, nreq, gw, hist>>

ReadHeaders == pc = "headers" /\ HeadersRead(read_headers(World))

NextHeaders == ReadHeaders

SpecHeaders == InitHeaders /\ [][NextHeaders]_vars

\* The stored spelling of the names sent, and the names that are folded
StoredName(name) == IF name \in {<<"A","c","c","e","p","t">>, <<"a","c","c","e","p","t">>} THEN <<"A","c","c","e","p","t">> ELSE <<"X","-","F","o","o">>
Folded == {<<"A","c","c","e","p","t">>}

\* What the dict holds after the lines: a repeat of a folded name is joined to the
\* value stored (to any value stored, or only to one that is not empty), any other
\* line stores its value.
RECURSIVE Folding(_, _, _)
Folding(d, lines, also_empty) ==
    IF Len(lines) = 0 THEN d
    ELSE LET key == StoredName(lines[1][1])
             value == lines[1][2]
             joins == key \in Folded /\ key \in DOMAIN d /\ (also_empty \/ d[key] # EMPTY)
         IN Folding([n \in DOMAIN d \cup {key} |-> IF n # key THEN d[n] ELSE IF joins THEN d[key] \o <<","," ">> \o value ELSE value], Tail(lines), also_empty)

NoHeaders == [h \in {} |-> EMPTY]

\* C17 as claimed: a repeat of a comma-folded name is joined with ", " to whatever
\* value is stored, an empty one included.
C17_FoldsAny == pc = "done" /\ last.op = "read_headers" => last.exc = NoExc /\ req.inheaders = Folding(NoHeaders, hist.written, TRUE)

\* C17 as the code has it: names are stored title-cased; a repeat of a comma-folded
\* name is joined with ", " to a stored value that is not empty and replaces an empty
\* one; a repeat of any other name replaces the stored value.
C17_FoldsNonEmpty == pc = "done" /\ last.op = "read_headers" => last.exc = NoExc /\ req.inheaders = Folding(NoHeaders, hist.written, FALSE)

C17_Witness ==
    /\ pc = "done" /\ last.op = "read_headers"
    /\ hist.written = <<<<<<"A","c","c","e","p","t">>, EMPTY>>, <<<<"a","c","c","e","p","t">>, <<"b">>>>, <<<<"A","c","c","e","p","t">>, <<"a">>>>>>
    /\ req.inheaders = [h \in {<<"A","c","c","e","p","t">>} |-> <<"b",","," ","a">>]

(***************************************************************************)
(* read_request_line on its own: a request line whose Request-URI is an    *)
(* abs_path of up to MaxPathAtoms pieces (plain text, escapes, escaped     *)
(* slashes in both cases, an escape that is not one) and a query string.   *)
(***************************************************************************)
MaxPathAtoms == 3

PathAtoms == {<<"a">>, <<"/">>, <<";","p">>, <<"%","2","F">>, <<"%","2","f">>, <<"%","4","1">>, <<"%","2","5">>, <<"%","z","z">>}
Queries == {EMPTY, <<"?">>, <<"?","x","=","%","4","1","%","2","f">>, <<"?","%","z","z">>}
Paths == UNION {[1..n -> PathAtoms] : n \in 1..MaxPathAtoms}

InitRequestLine ==
    /\ server \in {s \in Servers : s.protocol = HTTP11}
    /\ \E atoms \in Paths, query \in Queries :
          /\ rbuf = RequestLine(<<"G","E","T">>, FORWARD_SLASH \o Flatten(atoms) \o query, HTTP11)
          /\ hist = [NewHist(rbuf) EXCEPT !.written = atoms, !.tail = query]
    /\ peer_closed = FALSE
    /\ sock_err = NoExc
    /\ sent = << >>
    /\ req = NewRequest
    /\ rfile = SizeCheckWrapper(0)
    /\ conn = NewConnection
    /\ pc = "line"
    /\ nreq = 1
    /\ gw = NewGateway
    /\ last = NoLast

\* read_request_line() has returned or raised
RequestLineRead(w) ==
    /\ req' = w.req
    /\ rfile' = w.rfile
    /\ rbuf' = w.rbuf
    /\ sent' = sent \o Tagged(w.out, nreq)
    /\ last' = [NoLast EXCEPT !.op = "read_request_line", !.exc = w.exc]
    /\ pc' = "done"
    /\ UNCHANGED <<server, peer_closed, sock_err, conn, nreq, gw, hist>>

ReadRequestLine == pc = "line" /\ RequestLineRead(read_request_line(World))

NextRequestLine == ReadRequestLine

SpecRequestLine == InitRequestLine /\ [][NextRequestLine]_vars

\* What a piece of the path sent becomes in request.path
DecodedAtom(atom) ==
    IF atom \in {<<"%","2","F">>, <<"%","2","f">>} THEN <<"%","2","F">>
    ELSE IF atom = <<"%","4","1">> THEN <<"A">>
    ELSE IF atom = <<"%","2","5">> THEN <<"%">>
    ELSE atom
DecodedPath(atoms) == FORWARD_SLASH \o Flatten([i \in 1..Len(atoms) |-> DecodedAtom(atoms[i])])
Decodable(atoms) == \A i \in 1..Len(atoms) : atoms[i] # <<"%","z","z">>

\* C18: in request.path every escaped slash of the Request-URI, %2F or %2f, stands as
\* %2F and every other %HH escape is decoded; request.qs is the text after the first
\* question mark as it was sent, escapes and all.  A path with an escape that cannot
\* be decoded is refused.
C18_PathDecoded ==
    pc = "done" /\ last.op = "read_request_line"
    => /\ last.exc = NoExc
       /\ IF Decodable(hist.written)
          THEN /\ req.request_protocol = HTTP11
               /\ req.path = DecodedPath(hist.written)
               /\ req.qs = IF hist.tail = EMPTY THEN EMPTY ELSE Tail(hist.tail)
               /\ sent = << >>
          ELSE /\ req.request_protocol = PyNone
               /\ Len(sent) = 1 /\ StatusCodeOf(sent[1].data) = 400

C18_Witness ==
    /\ pc = "done" /\ last.op = "read_request_line"
    /\ hist.written = <<<<"%","2","f">>, <<"%","4","1">>, <<"%","2","F">>>> /\ hist.tail = <<"?","x","=","%","4","1","%","2","f">>
    /\ req.path = <<"/","%","2","F","A","%","2","F">> /\ req.qs = <<"x","=","%","4","1","%","2","f">>

(***************************************************************************)
(* Connections whose socket fails: every write raises a socket.error (one  *)
(* that socket_errors_to_ignore lists, or another), or the connection is   *)
(* wrapped by an SSL adapter while the peer speaks plain HTTP; the gateway *)
(* may also be interrupted.                                                *)
(***************************************************************************)
SocketWires == {GetA11, Get10, PostLength, PostExpect, GetA11 \o GetB11Close, EMPTY}
SocketServers == {[protocol |-> HTTP11, max_request_header_size |-> 0, max_request_body_size |-> 0, ssl_adapter |-> s] : s \in BOOLEAN}

InitSocket ==
    /\ server \in SocketServers
    /\ rbuf \in SocketWires
    /\ peer_closed \in BOOLEAN
    /\ sock_err \in {NoExc, SockErrIgnored, SockErrFatal}
    /\ sent = << >>
    /\ req = NewRequest
    /\ rfile = NoRFile
    /\ conn = NewConnection
    /\ pc = "parse"
    /\ nreq = 0
    /\ gw = NewGateway
    /\ last = NoLast
    /\ hist = NewHist(rbuf)

\* A KeyboardInterrupt is raised while the gateway runs
GatewayInterrupt == pc = "gateway" /\ GatewayCall([name |-> "interrupt", arg |-> EMPTY], Raise(World, "KeyboardInterrupt"))

NextSocket == Next \/ GatewayInterrupt

SpecSocket == InitSocket /\ [][NextSocket]_vars

\* C13: the only exceptions that leave communicate() are KeyboardInterrupt and
\* SystemExit; every other failure ends in a canned response or a silent return.
C13_NothingElseEscapes == pc = "raised" => hist.escaped \in {"KeyboardInterrupt", "SystemExit"}

\* A socket.error raised by the write of the canned 500 inside the handler of the
\* gateway's own exception has left communicate()
C13_Witness == pc = "raised" /\ hist.raised = "Exception" /\ hist.escaped = SockErrFatal /\ sock_err = SockErrFatal /\ sent = << >>

\* NoSSLError reached communicate() before the headers of the request were sent
NoSSLReached == hist.raised = "NoSSLError" /\ pc \in {"done", "raised", "closed"} /\ ~req.sent_headers

\* C19: when NoSSLError reaches communicate() and the headers are not sent, a 400 is
\* written in plain text and linger is set (written if the socket takes the write; set
\* unless the write raised); close() leaves the socket open when linger is set and
\* closes it when it is not.
C19_LingerAfterNoSSL ==
    /\ NoSSLReached /\ sock_err = NoExc => conn.linger /\ Len(sent) = 1 /\ StatusCodeOf(sent[1].data) = 400 /\ Carries(sent[1].data, <<"C","o","n","t","e","n","t","-","L","e","n","g","t","h",":"," ","8","5">>)
    /\ NoSSLReached /\ hist.escaped = NoExc => conn.linger
    /\ ~NoSSLReached => ~conn.linger
    /\ pc = "closed" => conn.closed = ~conn.linger
    /\ pc # "closed" => ~conn.closed

C19_Witness == pc = "closed" /\ NoSSLReached /\ conn.linger /\ ~conn.closed /\ Len(sent) = 1 /\ hist.wire0 = GetA11

(***************************************************************************)
(* HTTPServer.bind_addr: the property setter, called with (host, port)     *)
(* tuples and with the file names of UNIX sockets.  In the specifications  *)
(* of the server object, server holds the attributes of the HTTPServer.    *)
(***************************************************************************)
MaxAssignments == 2

\* The values assigned: (host, port) is a tuple, a file name is a string
HostPort(host, port) == [tuple |-> TRUE, host |-> host, port |-> port, path |-> EMPTY]
Path(name) == [tuple |-> FALSE, host |-> EMPTY, port |-> 0, path |-> name]

BindHosts == {EMPTY, PyNone, <<"0",".","0",".","0",".","0">>, <<"1","2","7",".","0",".","0",".","1">>, <<"l","o","c","a","l","h","o","s","t">>, <<":",":">>}
BindPorts == {0, 80, 8080}
BindPaths == {EMPTY, <<"/","t","m","p","/","s">>}
BindValues == {HostPort(h, p) : h \in BindHosts, p \in BindPorts} \cup {Path(n) : n \in BindPaths}

\* _bind_addr = "127.0.0.1", the class attribute
DefaultBindAddr == Path(<<"1","2","7",".","0",".","0",".","1">>)

\* A setter that stores whatever it is given
set_bind_addr_any(s, value) == [exc |-> NoExc, s |-> [s EXCEPT !.bind_addr = value]]

\* HTTPServer._set_bind_addr(value)
set_bind_addr(s, value) ==
    IF value.tuple /\ value.host \in {EMPTY, PyNone} THEN [exc |-> "ValueError", s |-> s]
    ELSE [exc |-> NoExc, s |-> [s EXCEPT !.bind_addr = value]]

InitBindAddr ==
    /\ server = [bind_addr |-> DefaultBindAddr]
    /\ rbuf = EMPTY
    /\ peer_closed = FALSE
    /\ sock_err = NoExc
    /\ sent = << >>
    /\ req = NewRequest
    /\ rfile = NoRFile
    /\ conn = NewConnection
    /\ pc = "new"
    /\ nreq = 0
    /\ gw = NewGateway
    /\ last = NoLast
    /\ hist = NewHist(EMPTY)

\* server.bind_addr = value has returned or raised
BindAddrSet(value, r) ==
    /\ server' = r.s
    /\ last' = [NoLast EXCEPT !.op = "bind_addr", !.data = value, !.exc = r.exc, !.calls = last.calls + 1]
    /\ UNCHANGED <<rbuf, peer_closed, sock_err, sent, req, rfile, conn, pc, nreq, gw, hist>>

SetBindAddr == last.calls < MaxAssignments /\ \E value \in BindValues : BindAddrSet(value, set_bind_addr(server, value))

NextBindAddr == SetBindAddr

SpecBindAddr == InitBindAddr /\ [][NextBindAddr]_vars

\* C20: assigning bind_addr a (host, port) tuple whose host is the empty string or
\* None raises ValueError and leaves the bind address as it was; any other (host, port)
\* tuple and any file name is stored.
C20_HostRequired ==
    [][IF last'.data.tuple /\ last'.data.host \in {EMPTY, PyNone}
       THEN last'.exc = "ValueError" /\ server'.bind_addr = server.bind_addr
       ELSE last'.exc = NoExc /\ server'.bind_addr = last'.data]_vars

C20_Witness ==
    /\ last.calls = 2 /\ last.exc = "ValueError" /\ last.data = HostPort(PyNone, 8080)
    /\ server.bind_addr = HostPort(<<"0",".","0",".","0",".","0">>, 8080)

(***************************************************************************)
(* HTTPServer.start() in the main thread and, in another thread, one call  *)
(* of stop() or one assignment of the interrupt property.  The threads     *)
(* interleave between statements.  server holds the attributes ready,      *)
(* interrupt and socket; pc holds where each thread stands; last holds the *)
(* other thread's call, its local variable sock, and what start() raised.  *)
(***************************************************************************)
NoInterrupt == "None"
InProgress == "True"
Interrupts == {"KeyboardInterrupt", "SystemExit"}

\* self.socket: None, a socket that is bound, one that listens, one that is closed
NoSocket == "None"

NewServer(addr) == [bind_addr |-> addr, ready |-> FALSE, interrupt |-> NoInterrupt, socket |-> NoSocket]

InitServer ==
    /\ server \in {NewServer(addr) : addr \in {HostPort(<<"0",".","0",".","0",".","0">>, 8080), Path(<<"/","t","m","p","/","s">>)}}
    /\ rbuf = EMPTY
    /\ peer_closed = FALSE
    /\ sock_err = NoExc
    /\ sent = << >>
    /\ req = NewRequest
    /\ rfile = NoRFile
    /\ conn = NewConnection
    /\ pc = [start |-> "new", other |-> "idle"]
    /\ nreq = 0
    /\ gw = NewGateway
    /\ last = [NoLast EXCEPT !.data = NoSocket]
    /\ hist = NewHist(EMPTY)

\* A step of start(): the main thread goes to position to, the server becomes s
StartStep(to, s) ==
    /\ pc' = [pc EXCEPT !.start = to]
    /\ server' = s
    /\ UNCHANGED <<rbuf, peer_closed, sock_err, sent, req, rfile, conn, nreq, gw, last, hist>>

\* start() raises exc
StartRaises(exc) ==
    /\ pc' = [pc EXCEPT !.start = "raised"]
    /\ last' = [last EXCEPT !.exc = exc]
    /\ UNCHANGED <<server, rbuf, peer_closed, sock_err, sent, req, rfile, conn, nreq, gw, hist>>

\* self._interrupt = None
Start == pc.start = "new" /\ StartStep("bind", [server EXCEPT !.interrupt = NoInterrupt])

\* self.socket = None; self.bind(af, socktype, proto)
StartBind == pc.start = "bind" /\ StartStep("listen", [server EXCEPT !.socket = "bound"])

\* self.socket.settimeout(1); self.socket.listen(self.request_queue_size)
StartListen ==
    /\ pc.start = "listen"
    /\ CASE server.socket = NoSocket -> StartRaises("AttributeError")
         [] server.socket = "closed" -> StartRaises(SockErrIgnored)
         [] OTHER -> StartStep("workers", [server EXCEPT !.socket = "listening"])

\* self.requests.start()
StartWorkers == pc.start = "workers" /\ StartStep("set_ready", server)

\* self.ready = True
StartReady == pc.start = "set_ready" /\ StartStep("loop", [server EXCEPT !.ready = TRUE])

\* while self.ready:
StartLoop == pc.start = "loop" /\ StartStep(IF server.ready THEN "accept" ELSE "returned", server)

\* tick(): s, addr = self.socket.accept().  Without a socket the AttributeError is
\* caught, on a closed socket the socket.error is one of those ignored, and a socket
\* that listens times out after a second or returns a connection.
TickAccept ==
    /\ pc.start = "accept"
    /\ \E has_connection \in BOOLEAN :
          /\ StartStep(IF server.socket = "listening" /\ has_connection THEN "accepted" ELSE "interrupt", server)
          /\ has_connection => server.socket = "listening"

\* tick(): if not self.ready: return; ...; self.requests.put(conn)
TickPut == pc.start = "accepted" /\ StartStep("interrupt", server)

\* if self.interrupt:
StartInterrupt == pc.start = "interrupt" /\ StartStep(IF server.interrupt # NoInterrupt THEN "wait" ELSE "loop", server)

\* while self.interrupt is True: time.sleep(0.1)
StartWait == pc.start = "wait" /\ server.interrupt # InProgress /\ StartStep("raise", server)

\* if self.interrupt: raise self.interrupt
StartRaise == pc.start = "raise" /\ IF server.interrupt # NoInterrupt THEN StartRaises(server.interrupt) ELSE StartStep("loop", server)

\* A step of the other thread
OtherStep(to, s, sock) ==
    /\ pc' = [pc EXCEPT !.other = to]
    /\ server' = s
    /\ last' = [last EXCEPT !.data = sock]
    /\ UNCHANGED <<rbuf, peer_closed, sock_err, sent, req, rfile, conn, nreq, gw, hist>>

\* The other thread makes its call, some time after start() was called
CalledServer(op, to, s) ==
    /\ pc.other = "idle" /\ pc.start \notin {"new", "returned", "raised"}
    /\ pc' = [pc EXCEPT !.other = to]
    /\ server' = s
    /\ last' = [last EXCEPT !.op = op]
    /\ hist' = [hist EXCEPT !.at = pc.start]
    /\ UNCHANGED <<rbuf, peer_closed, sock_err, sent, req, rfile, conn, nreq, gw>>

\* server.stop() is called
CallStop == CalledServer("stop", "stop", server)

\* server.interrupt = E is called while the accept loop runs: self._interrupt = True
SetInterrupt == pc.start \in {"loop", "accept", "accepted", "interrupt"} /\ server.ready /\ \E e \in Interrupts : CalledServer(e, "stop", [server EXCEPT !.interrupt = InProgress])

\* stop(): self.ready = False
StopReady == pc.other = "stop" /\ OtherStep("sock", [server EXCEPT !.ready = FALSE], last.data)

\* stop(): sock = getattr(self, "socket", None); if sock:
StopSock == pc.other = "sock" /\ OtherStep(IF server.socket = NoSocket THEN "pool" ELSE "close", server, server.socket)

\* stop(): touch our own socket if it is not a UNIX socket; sock.close()
StopClose == pc.other = "close" /\ OtherStep("forget", [server EXCEPT !.socket = IF @ = NoSocket THEN @ ELSE "closed"], last.data)

\* stop(): self.socket = None
StopForget == pc.other = "forget" /\ OtherStep("pool", [server EXCEPT !.socket = NoSocket], last.data)

\* stop(): self.requests.stop(self.shutdown_timeout); then, in _set_interrupt, self._interrupt = interrupt
StopPool == pc.other = "pool" /\ OtherStep("done", IF last.op \in Interrupts THEN [server EXCEPT !.interrupt = last.op] ELSE server, last.data)

StartThread == Start \/ StartBind \/ StartListen \/ StartWorkers \/ StartReady \/ StartLoop \/ TickAccept \/ TickPut \/ StartInterrupt \/ StartWait \/ StartRaise
OtherThread == StopReady \/ StopSock \/ StopClose \/ StopForget \/ StopPool

NextServer == StartThread \/ CallStop \/ SetInterrupt \/ OtherThread

SpecServer == InitServer /\ [][NextServer]_vars

\* Each thread that can take a step eventually takes one
SpecServerFair == SpecServer /\ WF_vars(StartThread) /\ WF_vars(OtherThread)

StartOver == pc.start \in {"returned", "raised"}

\* C14: once stop() has been called from another thread, at whatever point after
\* start() was called, start() eventually leaves the accept loop.
C14_StopEndsStart == (last.op = "stop") ~> StartOver

\* stop() has run to its end before start() set ready, and start() is accepting
C14_Witness == last.op = "stop" /\ pc.other = "done" /\ hist.at \in {"bind", "listen", "workers", "set_ready"} /\ pc.start = "accept" /\ server.ready

\* C15: once the interrupt property has been set to E while the accept loop runs,
\* start() ends by raising E, and not before the stop() of the setter is over.
C15_RaisesInterrupt ==
    /\ last.op \in Interrupts /\ StartOver => pc.start = "raised" /\ last.exc = last.op
    /\ last.exc \in Interrupts => pc.other = "done"

\* start() has returned although the interrupt was set
C15_Witness == last.op = "KeyboardInterrupt" /\ pc.start = "returned" /\ pc.other = "done" /\ server.interrupt = "KeyboardInterrupt"

(***************************************************************************)
(* send_headers under every framing: the gateway sets a status and a list  *)
(* of headers of its own (with or without Content-Length and Connection,   *)
(* in either case of the name), and the header block is sent by the        *)
(* gateway or, after the gateway returned, by respond().                   *)
(***************************************************************************)
FramingStatuses == {<<"2","0","0"," ","O","K">>, <<"2","0","4"," ","N","o"," ","C","o","n","t","e","n","t">>, <<"4","1","3"," ","R","e","q","u","e","s","t"," ","E","n","t","i","t","y"," ","T","o","o"," ","L","a","r","g","e">>}
FramingHeaders ==
    {<< >>, <<<<<<"C","o","n","t","e","n","t","-","L","e","n","g","t","h">>, <<"2">>>>>>, <<<<<<"c","o","n","t","e","n","t","-","l","e","n","g","t","h">>, <<"2">>>>>>, <<<<<<"C","o","n","n","e","c","t","i","o","n">>, <<"c","l","o","s","e">>>>>>,
     <<<<<<"C","o","n","t","e","n","t","-","L","e","n","g","t","h">>, <<"2">>>>, <<<<"c","o","n","n","e","c","t","i","o","n">>, <<"K","e","e","p","-","A","l","i","v","e">>>>>>}

InitFraming ==
    /\ server \in Servers
    /\ rbuf \in Wires
    /\ peer_closed \in BOOLEAN
    /\ sock_err = NoExc
    /\ sent = << >>
    /\ req = NewRequest
    /\ rfile = NoRFile
    /\ conn = NewConnection
    /\ pc = "parse"
    /\ nreq = 0
    /\ gw = NewGateway
    /\ last = NoLast
    /\ hist = NewHist(rbuf)

\* req.status = status; req.outheaders = headers: once per request, before its headers are sent
GatewayPrepares ==
    /\ pc = "gateway" /\ ~req.sent_headers /\ last.calls < nreq
    /\ \E status \in FramingStatuses, headers \in FramingHeaders :
          Finish(status_set([World EXCEPT !.req.outheaders = headers], set_status(status)), "gateway", nreq, TRUE)
    /\ last' = [last EXCEPT !.calls = nreq]
    /\ UNCHANGED <<server, peer_closed, sock_err, nreq, gw>>

NextFraming == ParseRequest \/ Respond \/ GatewayPrepares \/ GatewaySendHeaders \/ GatewayReturn \/ Close

SpecFraming == InitFraming /\ [][NextFraming]_vars

\* The step in which send_headers runs, and what it is given
SendsHeaders == pc = "gateway" /\ ~req.sent_headers /\ req'.sent_headers
GivenStatus == intparse(Take(req.status, 3), 10).val
GivenHeader(name) == \E i \in 1..Len(req.outheaders) : lower(req.outheaders[i][1]) = name
NoBodyStatus == GivenStatus < 200 \/ GivenStatus \in {204, 205, 304}
MayChunk == req.response_protocol = HTTP11 /\ req.method # <<"H","E","A","D">>
\* The header block the step sent
BlockSent == sent'[Len(sent')].data

\* C21: when the status allows a body and the gateway gave no Content-Length, send_headers
\* sets chunked_write and appends Transfer-Encoding: chunked if and only if the response
\* protocol is HTTP/1.1 and the method is not HEAD, and otherwise forces close_connection;
\* chunked_write is never set when there is a Content-Length or the status forbids a body.
C21_Framing ==
    [][SendsHeaders =>
          /\ Len(sent') = Len(sent) + 1
          /\ IF ~NoBodyStatus /\ ~GivenHeader(<<"c","o","n","t","e","n","t","-","l","e","n","g","t","h">>)
             THEN /\ req'.chunked_write <=> MayChunk
                  /\ Carries(BlockSent, <<"T","r","a","n","s","f","e","r","-","E","n","c","o","d","i","n","g",":"," ","c","h","u","n","k","e","d">>) <=> MayChunk
                  /\ ~MayChunk => req'.close_connection
             ELSE /\ ~req'.chunked_write
                  /\ ~CarriesHeader(BlockSent, <<"T","r","a","n","s","f","e","r","-","E","n","c","o","d","i","n","g">>)]_vars

\* A HEAD request on HTTP/1.1 answered without Content-Length: not chunked, closed
C21_Witness ==
    /\ req.sent_headers /\ req.method = <<"H","E","A","D">> /\ req.response_protocol = HTTP11 /\ ~req.chunked_write /\ req.close_connection
    /\ Len(SendsOf(nreq)) = 1 /\ StatusCodeOf(SendsOf(nreq)[1].data) = 200 /\ ~CarriesHeader(SendsOf(nreq)[1].data, <<"C","o","n","t","e","n","t","-","L","e","n","g","t","h">>)
    /\ hist.at = "gateway"

\* close_connection as send_headers leaves it: what the request asked for, a 413, or a
\* response that only the end of the connection delimits
CloseDelimited == ~NoBodyStatus /\ ~GivenHeader(<<"c","o","n","t","e","n","t","-","l","e","n","g","t","h">>) /\ ~MayChunk
CloseUsed == req.close_connection \/ GivenStatus = 413 \/ CloseDelimited

\* C22: when the gateway gave no Connection header, the header block of an HTTP/1.1 response
\* carries Connection: close if and only if close_connection is true, and that of an
\* HTTP/1.0 response carries Connection: Keep-Alive if and only if it is false, where
\* close_connection is taken after the framing decision.
C22_ConnectionHeader ==
    [][SendsHeaders /\ ~GivenHeader(<<"c","o","n","n","e","c","t","i","o","n">>) =>
          /\ pc' = "gateway" => (req'.close_connection <=> CloseUsed)
          /\ IF req.response_protocol = HTTP11
             THEN /\ Carries(BlockSent, <<"C","o","n","n","e","c","t","i","o","n",":"," ","c","l","o","s","e">>) <=> CloseUsed
                  /\ ~Carries(BlockSent, <<"C","o","n","n","e","c","t","i","o","n",":"," ","K","e","e","p","-","A","l","i","v","e">>)
             ELSE /\ Carries(BlockSent, <<"C","o","n","n","e","c","t","i","o","n",":"," ","K","e","e","p","-","A","l","i","v","e">>) <=> ~CloseUsed
                  /\ ~Carries(BlockSent, <<"C","o","n","n","e","c","t","i","o","n",":"," ","c","l","o","s","e">>)]_vars

\* An HTTP/1.1 request that did not ask to close, answered without Content-Length on an
\* HTTP/1.0 server: the block says neither close nor Keep-Alive, and the connection closes
C22_Witness ==
    /\ hist.at = "gateway" /\ req.sent_headers /\ req.close_connection
    /\ req.request_protocol = HTTP11 /\ req.response_protocol = HTTP10 /\ <<"C","o","n","n","e","c","t","i","o","n">> \notin DOMAIN req.inheaders
    /\ Len(SendsOf(nreq)) = 1 /\ ~CarriesHeader(SendsOf(nreq)[1].data, <<"C","o","n","n","e","c","t","i","o","n">>) /\ ~CarriesHeader(SendsOf(nreq)[1].data, <<"C","o","n","t","e","n","t","-","L","e","n","g","t","h">>)
    /\ StatusCodeOf(SendsOf(nreq)[1].data) = 200

(***************************************************************************)
(* read_request_headers under every Connection and Transfer-Encoding       *)
(* header: one request of either protocol, on a server of either protocol. *)
(***************************************************************************)
NoHeader == <<"<no header>">>
ConnectionValues == {NoHeader, <<"c","l","o","s","e">>, <<"C","l","o","s","e">>, <<"K","e","e","p","-","A","l","i","v","e">>, <<"k","e","e","p","-","a","l","i","v","e">>}
ChunkedEncodings == {<<"c","h","u","n","k","e","d">>, <<"C","h","u","n","k","e","d">>, <<"c","h","u","n","k","e","d",",">>, <<" ","c","h","u","n","k","e","d"," ",",","c","h","u","n","k","e","d">>}
OtherEncodings == {EMPTY, <<"g","z","i","p">>, <<"c","h","u","n","k","e","d",","," ","g","z","i","p">>, <<"g","z","i","p",","," ","c","h","u","n","k","e","d">>}
EncodingValues == {NoHeader} \cup ChunkedEncodings \cup OtherEncodings
HeaderIf(name, value) == IF value = NoHeader THEN EMPTY ELSE Header(name, value)
PersistenceWire(protocol, connection, te) ==
    RequestLine(<<"P","O","S","T">>, <<"/">>, protocol) \o HeaderIf(<<"C","o","n","n","e","c","t","i","o","n">>, connection) \o HeaderIf(<<"T","r","a","n","s","f","e","r","-","E","n","c","o","d","i","n","g">>, te) \o CRLF
        \o (IF te \in ChunkedEncodings /\ protocol = HTTP11 THEN LastChunk ELSE EMPTY)
PersistenceWires == {PersistenceWire(p, c, te) : p \in {HTTP10, HTTP11}, c \in ConnectionValues, te \in EncodingValues}

InitPersistence ==
    /\ server \in Servers
    /\ rbuf \in PersistenceWires
    /\ peer_closed \in BOOLEAN
    /\ sock_err = NoExc
    /\ sent = << >>
    /\ req = NewRequest
    /\ rfile = NoRFile
    /\ conn = NewConnection
    /\ pc = "parse"
    /\ nreq = 0
    /\ gw = NewGateway
    /\ last = NoLast
    /\ hist = NewHist(rbuf)

SpecPersistence == InitPersistence /\ [][NextLimits]_vars

\* What the peer sent in the head of its request
Asked(line) == contains(Take(hist.wire0, HeadLength), CRLF \o line \o CRLF)
AskedHeader(name) == contains(Take(hist.wire0, HeadLength), CRLF \o name \o COLON)
Negotiated11 == SentHTTP11 /\ server.protocol = HTTP11
\* The first request has been parsed, and its headers were accepted
Parsed == nreq = 1 /\ hist.at # "none"
HeadersAccepted == Parsed /\ hist.at = "parse" /\ pc = "respond"

\* C23: after a successful header parse close_connection is true exactly when the negotiated
\* protocol is HTTP/1.1 and the Connection header equals "close", or the negotiated protocol
\* is HTTP/1.0 and the Connection header is not "Keep-Alive"; without a Connection header
\* the connection is kept on HTTP/1.1 and closed on HTTP/1.0.
C23_Persistence ==
    HeadersAccepted =>
        /\ req.ready
        /\ req.response_protocol = (IF Negotiated11 THEN HTTP11 ELSE HTTP10)
        /\ req.close_connection <=> (IF Negotiated11 THEN Asked(<<"C","o","n","n","e","c","t","i","o","n",":"," ","c","l","o","s","e">>) ELSE ~Asked(<<"C","o","n","n","e","c","t","i","o","n",":"," ","K","e","e","p","-","A","l","i","v","e">>))
        /\ ~AskedHeader(<<"C","o","n","n","e","c","t","i","o","n">>) => (req.close_connection <=> ~Negotiated11)

\* An HTTP/1.1 request with Connection: Keep-Alive on an HTTP/1.0 server is kept open, and
\* an HTTP/1.0 request with Connection: keep-alive is not
C23_Witness ==
    /\ HeadersAccepted
    /\ \/ SentHTTP11 /\ server.protocol = HTTP10 /\ Asked(<<"C","o","n","n","e","c","t","i","o","n",":"," ","K","e","e","p","-","A","l","i","v","e">>) /\ ~req.close_connection
       \/ ~SentHTTP11 /\ Asked(<<"C","o","n","n","e","c","t","i","o","n",":"," ","k","e","e","p","-","a","l","i","v","e">>) /\ req.close_connection
    /\ ~AskedHeader(<<"T","r","a","n","s","f","e","r","-","E","n","c","o","d","i","n","g">>)

\* The value of the Transfer-Encoding header the peer sent, and its tokens: the pieces
\* between commas, stripped and lower-cased, the empty ones left out
AskedEncoding == LET rest == Drop(hist.wire0, find(hist.wire0, <<"T","r","a","n","s","f","e","r","-","E","n","c","o","d","i","n","g",":"," ">>) + Len(<<"T","r","a","n","s","f","e","r","-","E","n","c","o","d","i","n","g",":"," ">>) - 1) IN Take(rest, find(rest, CRLF) - 1)
EncodingPieces == split(AskedEncoding, COMMA, -1)
EncodingTokens == {lower(strip(EncodingPieces[i])) : i \in 1..Len(EncodingPieces)} \ {EMPTY}
Encoded == Negotiated11 /\ AskedHeader(<<"T","r","a","n","s","f","e","r","-","E","n","c","o","d","i","n","g">>)

\* C24: on a negotiated HTTP/1.1 request with a Transfer-Encoding header, a token other than
\* "chunked" makes the server write 501, set close_connection, leave ready false and never
\* call the gateway, also when "chunked" is among the tokens; a ready request has
\* chunked_read if and only if there is a token and every token is "chunked".
C24_Encodings ==
    Parsed =>
        /\ Encoded /\ EncodingTokens \ {<<"c","h","u","n","k","e","d">>} # {} =>
              /\ hist.at = "parse" /\ pc \in {"done", "closed"}
              /\ ~req.ready /\ req.close_connection
              /\ Len(sent) = 1 /\ startswith(sent[1].data, server.protocol \o <<" ","5","0","1"," ","U","n","i","m","p","l","e","m","e","n","t","e","d">> \o CRLF)
        /\ req.ready => (req.chunked_read <=> Encoded /\ EncodingTokens = {<<"c","h","u","n","k","e","d">>})

\* "chunked, gzip" was refused with 501
C24_Witness ==
    /\ Parsed /\ Encoded /\ AskedEncoding = <<"c","h","u","n","k","e","d",","," ","g","z","i","p">> /\ pc = "closed"
    /\ StatusCodeOf(sent[1].data) = 501 /\ ~req.ready

\* The limit on the request line and headers tripped while the response protocol was
\* HTTP/1.0: in the request line, where it is not yet negotiated, or in the headers of a
\* request that an HTTP/1.0 side takes part in
TrippedOn10 ==
    /\ nreq = 1 /\ server.max_request_header_size > 0 /\ HeadLength > server.max_request_header_size
    /\ LineLength > server.max_request_header_size \/ ~(SentHTTP11 /\ server.protocol = HTTP11)

\* C25: simple_response called with 413 or 414 while the response protocol is HTTP/1.0 writes
\* a status line carrying 400 Bad Request and no Connection header, and sets close_connection.
C25_Downgraded ==
    TrippedOn10 =>
        /\ Len(SendsOf(1)) = 1
        /\ startswith(SendsOf(1)[1].data, server.protocol \o <<" ","4","0","0"," ","B","a","d"," ","R","e","q","u","e","s","t">> \o CRLF)
        /\ ~CarriesHeader(SendsOf(1)[1].data, <<"C","o","n","n","e","c","t","i","o","n">>)
        /\ req.close_connection

\* A request line over the limit was answered, on response protocol HTTP/1.0, with a
\* status line that carries 414
C25_Witness ==
    /\ TrippedOn10 /\ req.response_protocol = HTTP10 /\ req.close_connection /\ pc = "closed"
    /\ startswith(SendsOf(1)[1].data, server.protocol \o <<" ","4","1","4"," ","R","e","q","u","e","s","t","-","U","R","I"," ","T","o","o"," ","L","o","n","g">> \o CRLF)
    /\ ~CarriesHeader(SendsOf(1)[1].data, <<"C","o","n","n","e","c","t","i","o","n">>)

(***************************************************************************)
(* A limit on the request body: servers with max_request_body_size set, a  *)
(* peer that sends a chunked or a counted body, and a gateway that reads   *)
(* the body and lets the reader's error propagate.                         *)
(***************************************************************************)
BodyLimits == {0, 2, 4, 8}
BodyLimitServers == {[protocol |-> HTTP11, max_request_header_size |-> 0, max_request_body_size |-> m, ssl_adapter |-> FALSE] : m \in BodyLimits}
BodyLimitWires == {PostChunked, PostChunked \o GetB11Close, PostLength, GetA11}

InitBodyLimit ==
    /\ server \in BodyLimitServers
    /\ rbuf \in BodyLimitWires
    /\ peer_closed \in BOOLEAN
    /\ sock_err = NoExc
    /\ sent = << >>
    /\ req = NewRequest
    /\ rfile = NoRFile
    /\ conn = NewConnection
    /\ pc = "parse"
    /\ nreq = 0
    /\ gw = NewGateway
    /\ last = NoLast
    /\ hist = NewHist(rbuf)

\* The driver with a gateway that reads the body and at most has the header block sent
NextReading == ParseRequest \/ Respond \/ GatewayRead \/ GatewaySendHeaders \/ GatewayReturn \/ Close

SpecBodyLimit == InitBodyLimit /\ [][NextReading]_vars

\* The gateway's read of a chunked body raised because the body is over the limit, and
\* the error left the gateway
BodyOverflowed == hist.at = "gateway" /\ hist.raised \in {"MaxSizeExceeded", "IOError"} /\ rfile.kind = "ChunkedRFile"

\* C26: when a chunked request body exceeds max_request_body_size while the gateway reads it
\* and the gateway lets the error propagate, the server answers 413 Request Entity Too Large
\* and closes the connection (as far as the headers were not sent before the read).
C26_BodyTooLarge ==
    BodyOverflowed /\ ~req.sent_headers =>
        /\ pc \in {"done", "closed"}
        /\ Len(SendsOf(nreq)) = 1
        /\ startswith(SendsOf(nreq)[1].data, server.protocol \o <<" ","4","1","3"," ","R","e","q","u","e","s","t"," ","E","n","t","i","t","y"," ","T","o","o"," ","L","a","r","g","e">> \o CRLF)

\* The chunk of three bytes did not fit a limit of four: the read raised IOError and the
\* peer was sent 500 Internal Server Error
C26_Witness ==
    /\ BodyOverflowed /\ hist.raised = "IOError" /\ server.max_request_body_size = 4 /\ ~req.sent_headers
    /\ pc = "closed" /\ conn.closed
    /\ Len(SendsOf(nreq)) = 1 /\ StatusCodeOf(SendsOf(nreq)[1].data) = 500

(***************************************************************************)
(* A peer that stalls: it sends nothing, a whole request and then nothing, *)
(* or a request that stops in its request line, its headers or its body;   *)
(* and, next to it, a peer that sends a second request after a body.       *)
(* A read that finds no data ends in a socket timeout unless the peer      *)
(* closed its side.                                                        *)
(***************************************************************************)
StalledLine == <<"G","E","T"," ","/","b"," ","H","T">>
StalledHeaders == RequestLine(<<"G","E","T">>, <<"/","b">>, HTTP11) \o Header(<<"H","o","s","t">>, <<"h">>)
StalledBody == RequestLine(<<"P","O","S","T">>, <<"/">>, HTTP11) \o Header(<<"C","o","n","t","e","n","t","-","L","e","n","g","t","h">>, <<"3">>) \o CRLF \o <<"a","b">>
TimeoutWires == {EMPTY, GetA11, StalledLine, StalledHeaders, StalledBody, GetA11 \o StalledLine, GetA11 \o StalledHeaders, GetA11 \o StalledBody,
                 PostLength \o GetB11Close, PostChunked \o GetB11Close}

InitTimeout ==
    /\ server \in Servers
    /\ rbuf \in TimeoutWires
    /\ peer_closed \in BOOLEAN
    /\ sock_err = NoExc
    /\ sent = << >>
    /\ req = NewRequest
    /\ rfile = NoRFile
    /\ conn = NewConnection
    /\ pc = "parse"
    /\ nreq = 0
    /\ gw = NewGateway
    /\ last = NoLast
    /\ hist = NewHist(rbuf)

SpecTimeout == InitTimeout /\ [][NextReading]_vars

\* A read timed out while communicate waited for the start of a request: no data of
\* the request had been returned by the reader
IdleTimeout == hist.at = "parse" /\ hist.raised = Timeout /\ ~req.started_request
RequestTimeout == server.protocol \o <<" ","4","0","8"," ","R","e","q","u","e","s","t"," ","T","i","m","e","o","u","t">> \o CRLF
Silent == SendsOf(nreq) = << >>
Answered408 == Len(SendsOf(nreq)) = 1 /\ startswith(SendsOf(nreq)[1].data, RequestTimeout)
Returned == pc \in {"done", "closed"}

\* C27 as claimed: a timeout while waiting for the start of a request, on the first request
\* of a connection as well as between keep-alive requests, ends communicate() with no bytes
\* written to the client.
C27_AlwaysSilent == IdleTimeout => Returned /\ Silent

\* C27 as the code has it: such a timeout is silent between keep-alive requests, and is
\* answered with 408 Request Timeout when no request has been seen on the connection.
C27_SilentBetweenRequests == IdleTimeout => Returned /\ IF conn.request_seen THEN Silent ELSE Answered408

\* After a whole request was answered the peer stalled in its next request line, and
\* the connection was closed without a further byte
C27_Witness ==
    /\ IdleTimeout /\ nreq = 2 /\ conn.request_seen /\ Silent /\ pc = "closed"
    /\ hist.wire0 = GetA11 \o StalledLine /\ rbuf = StalledLine

\* A read timed out after the request had started: its request line had been read, and
\* the peer stalled in the headers or in the body
StalledInRequest == hist.raised = Timeout /\ req.started_request
Sent408 == \E i \in 1..Len(SendsOf(nreq)) : contains(SendsOf(nreq)[i].data, <<"4","0","8"," ","R","e","q","u","e","s","t"," ","T","i","m","e","o","u","t">>)

\* C28: a socket timeout after the request has started and before the response headers
\* were sent produces a 408 Request Timeout, after which communicate() returns; if the
\* headers were already sent no 408 is written.
C28_TimeoutInRequest ==
    StalledInRequest => Returned /\ IF req.sent_headers THEN ~Sent408 ELSE Answered408

\* The peer stalled in the body of the second request of the connection, which the
\* gateway was reading before any header was sent: 408
C28_Witness ==
    /\ StalledInRequest /\ hist.at = "gateway" /\ nreq = 2 /\ ~req.sent_headers /\ Answered408 /\ pc = "closed"
    /\ rfile.kind = "KnownLengthRFile"

\* communicate is in its loop: it parses, or it is in respond() or in the gateway
Running == pc \in {"parse", "respond", "gateway"}
\* Exceptions the except clauses of communicate have no clause of their own for, and the
\* socket.error that is not in socket_errors_to_ignore
Unexpected == {"Exception", "ValueError", "IOError", "MaxSizeExceeded", "TypeError", "IndexError", "AttributeError", "UnboundLocalError", SockErrFatal}
\* What the step sent
NewSends == SubSeq(sent', Len(sent) + 1, Len(sent'))
\* A canned response: a status line of simple_response, with its Content-Type and no Date
IsCanned(d, code) == IsHeaderBlock(d) /\ StatusCodeOf(d) = code /\ Carries(d, <<"C","o","n","t","e","n","t","-","T","y","p","e",":"," ","t","e","x","t","/","p","l","a","i","n">>) /\ ~CarriesHeader(d, <<"D","a","t","e">>)
InternalServerError == server.protocol \o <<" ","5","0","0"," ","I","n","t","e","r","n","a","l"," ","S","e","r","v","e","r"," ","E","r","r","o","r">> \o CRLF \o <<"C","o","n","t","e","n","t","-","L","e","n","g","t","h",":"," ","0">> \o CRLF \o <<"C","o","n","t","e","n","t","-","T","y","p","e",":"," ","t","e","x","t","/","p","l","a","i","n">> \o CRLF \o CRLF

\* C29: when an unexpected exception or a socket error that is not ignorable is raised
\* while a request is handled, the driver writes the canned 500 Internal Server Error if
\* and only if the request's sent_headers is false (on a socket that fails the write too,
\* the attempt shows as the error of that write); and no step writes a canned 400, 408
\* or 500 for a request whose sent_headers is true.
C29_CannedBeforeHeaders ==
    [][Running =>
          /\ hist'.raised \in Unexpected =>
                IF req'.sent_headers THEN \A i \in 1..Len(NewSends) : ~IsCanned(NewSends[i].data, 500)
                ELSE CASE sock_err = NoExc -> Len(NewSends) > 0 /\ NewSends[Len(NewSends)].data = InternalServerError /\ pc' = "done"
                       [] sock_err = SockErrIgnored -> pc' = "done"
                       [] sock_err = SockErrFatal -> pc' = "raised" /\ hist'.escaped = SockErrFatal
          /\ \A i \in 1..Len(NewSends) : (\E code \in {400, 408, 500} : IsCanned(NewSends[i].data, code)) => ~req'.sent_headers]_vars

\* The gateway raised after it had the headers sent: the header block is the only
\* status line of the response
C29_Witness ==
    /\ hist.at = "gateway" /\ hist.raised = "Exception" /\ req.sent_headers /\ pc = "closed" /\ sock_err = NoExc
    /\ Len(HeaderBlocksOf(nreq)) = 1 /\ CarriesHeader(HeaderBlocksOf(nreq)[1].data, <<"D","a","t","e">>)

\* The body the first request declared, read off what the peer sent
AskedLength == IF Asked(<<"C","o","n","t","e","n","t","-","L","e","n","g","t","h",":"," ","3">>) THEN 3 ELSE 0
\* send_headers drains: the body is counted and the connection is to be kept
Drains == ~req.chunked_read /\ ~CloseUsed

\* C30 as claimed: when send_headers runs for a request with a known-length body and
\* close_connection false, every unread byte of the declared body is consumed before the
\* header block is written, and remaining is 0 afterwards.
C30_AllConsumed == [][SendsHeaders /\ Drains /\ Len(sent') > Len(sent) => rfile'.remaining = 0]_vars

\* C30 as the code has it: send_headers reads the unread rest of the declared body before
\* it writes the header block.  If the peer sent the whole body, remaining is 0 afterwards
\* and the next request is parsed from the first byte after the declared body; if the peer
\* closed before the end of its body, what it sent is consumed and remaining stays above 0;
\* while the peer stalls, the read times out and no header block is written.  When
\* close_connection is true or the body is chunked nothing is drained.
C30_Drained ==
    [][SendsHeaders =>
          IF ~Drains THEN rbuf' = rbuf /\ rfile' = rfile
          ELSE IF Len(rbuf) >= rfile.remaining
          THEN /\ rfile'.remaining = 0 /\ rbuf' = Drop(rbuf, rfile.remaining)
               /\ nreq = 1 => rbuf' = Drop(hist.wire0, HeadLength + AskedLength)
               /\ Len(sent') = Len(sent) + 1
          ELSE IF peer_closed THEN rbuf' = EMPTY /\ Len(sent') = Len(sent) + 1
          ELSE hist'.raised = Timeout /\ sent' = sent]_vars

\* The gateway read one byte of a body of three and had the headers sent: the other two
\* were consumed, and the second request of the connection was parsed and answered
C30_Witness ==
    /\ hist.wire0 = PostLength \o GetB11Close /\ nreq = 2 /\ req.path = <<"/","b">> /\ pc = "closed"
    /\ Len(gw.script) >= 2 /\ gw.script[1] = [name |-> "read", arg |-> <<1>>] /\ gw.script[2].name = "send_headers"
    /\ Len(HeaderBlocksOf(2)) = 1 /\ StatusCodeOf(HeaderBlocksOf(2)[1].data) = 200

(***************************************************************************)
(* Header blocks with continuation lines: a request line followed by up to *)
(* MaxHeaderLines lines, each a header of a folded or an unfolded name or  *)
(* a line that begins with SP or HTAB, and the empty line.                 *)
(***************************************************************************)
ContinuedItems == {<<<<"A","c","c","e","p","t">>, <<"a">>>>, <<<<"X","-","F","o","o">>, <<"a">>>>, <<SPACE, <<"b">>>>, <<TAB, <<"c">>>>}
ContinuedLines == UNION {[1..n -> ContinuedItems] : n \in 1..MaxHeaderLines}
IsContinuation(item) == item[1] \in {SPACE, TAB}

RECURSIVE ContinuedWire(_)
ContinuedWire(lines) ==
    IF Len(lines) = 0 THEN CRLF
    ELSE (IF IsContinuation(lines[1]) THEN lines[1][1] \o lines[1][2] \o CRLF ELSE Header(lines[1][1], lines[1][2])) \o ContinuedWire(Tail(lines))

InitContinuation ==
    /\ server \in Servers
    /\ \E lines \in ContinuedLines : rbuf = RequestLine(<<"G","E","T">>, <<"/">>, HTTP11) \o ContinuedWire(lines) /\ hist = [NewHist(rbuf) EXCEPT !.written = lines]
    /\ peer_closed \in BOOLEAN
    /\ sock_err = NoExc
    /\ sent = << >>
    /\ req = NewRequest
    /\ rfile = NoRFile
    /\ conn = NewConnection
    /\ pc = "parse"
    /\ nreq = 0
    /\ gw = NewGateway
    /\ last = NoLast

SpecContinuation == InitContinuation /\ [][NextLimits]_vars

\* What the dict holds after the lines when a continuation is appended, after sep, to the
\* value of the header before it (prev is that header's stored name)
RECURSIVE Unfolding(_, _, _, _)
Unfolding(d, lines, prev, sep) ==
    IF Len(lines) = 0 THEN d
    ELSE IF IsContinuation(lines[1]) THEN Unfolding(put(d, prev, d[prev] \o sep \o lines[1][2]), Tail(lines), prev, sep)
    ELSE LET key == StoredName(lines[1][1])
         IN Unfolding(put(d, key, IF key \in Folded /\ key \in DOMAIN d THEN d[key] \o <<","," ">> \o lines[1][2] ELSE lines[1][2]), Tail(lines), key, sep)

\* The separators a continuation may be appended after
Separators == {EMPTY, SPACE, <<","," ">>}

\* C31: a line that begins with SP or HTAB is a continuation: its stripped value is
\* appended to the value of the header before it, whatever the header's name, and no key
\* is created; a continuation that is the first header line is refused with 400.
C31_Continuation ==
    nreq = 1 /\ hist.at = "parse" =>
        IF IsContinuation(hist.written[1])
        THEN ~req.ready /\ Len(sent) = 1 /\ StatusCodeOf(sent[1].data) = 400
        ELSE req.ready /\ \E sep \in Separators : req.inheaders = Unfolding(NoHeaders, hist.written, Unbound, sep)

\* "X-Foo: a" followed by " b" was accepted, and X-Foo is stored as "b"
C31_Witness ==
    /\ nreq = 1 /\ hist.at = "parse" /\ req.ready
    /\ hist.written = <<<<<<"X","-","F","o","o">>, <<"a">>>>, <<SPACE, <<"b">>>>>>
    /\ req.inheaders = [h \in {<<"X","-","F","o","o">>} |-> <<"b">>]

(***************************************************************************)
(* The start of a request: up to MaxLeadingCRLF bare CRLFs, and then a     *)
(* whole request, nothing, a request line that ends in a bare LF or one    *)
(* that the end of the stream cuts short.                                  *)
(***************************************************************************)
MaxLeadingCRLF == 3

BareLF == <<"G","E","T"," ","/","a"," ","H","T","T","P","/","1",".","1">> \o LF \o Header(<<"H","o","s","t">>, <<"h">>) \o CRLF
LeadingTails == {GetA11, EMPTY, BareLF, StalledLine}
RECURSIVE Leading(_)
Leading(n) == IF n = 0 THEN EMPTY ELSE CRLF \o Leading(n - 1)

InitLeading ==
    /\ server \in Servers
    /\ \E n \in 0..MaxLeadingCRLF, tail \in LeadingTails : rbuf = Leading(n) \o tail /\ hist = [NewHist(rbuf) EXCEPT !.length = n, !.tail = tail]
    /\ peer_closed \in BOOLEAN
    /\ sock_err = NoExc
    /\ sent = << >>
    /\ req = NewRequest
    /\ rfile = NoRFile
    /\ conn = NewConnection
    /\ pc = "parse"
    /\ nreq = 0
    /\ gw = NewGateway
    /\ last = NoLast

SpecLeading == InitLeading /\ [][NextLimits]_vars

\* parse_request has returned for the first request, without a timeout
FirstParsed == nreq = 1 /\ hist.at = "parse" /\ hist.raised = NoExc
Refused400 == ~req.ready /\ Len(sent) = 1 /\ StatusCodeOf(sent[1].data) = 400 /\ pc \in {"done", "closed"}

\* C32: an empty read (the peer closed) leaves ready false and writes nothing; exactly one
\* leading bare CRLF is skipped and the line after it is parsed as the request line; two
\* bare CRLFs in a row are refused with 400 and ready stays false; a line that does not
\* end in CRLF is refused with 400.
C32_LeadingCRLF ==
    FirstParsed =>
        IF hist.length >= 2 THEN Refused400
        ELSE CASE hist.tail = EMPTY -> ~req.ready /\ sent = << >> /\ pc \in {"done", "closed"}
               [] hist.tail = GetA11 -> req.ready /\ req.method = <<"G","E","T">> /\ req.path = <<"/","a">> /\ rbuf = EMPTY
               [] OTHER -> Refused400

\* One bare CRLF before the request was skipped
C32_Witness == FirstParsed /\ hist.length = 1 /\ hist.tail = GetA11 /\ req.ready /\ req.path = <<"/","a">> /\ pc = "respond"

(***************************************************************************)
(* The forms of the Request-URI: "*", an absoluteURI with and without a    *)
(* path after the authority, an abs_path and an authority, in requests of  *)
(* three protocol versions.                                                *)
(***************************************************************************)
UriForms == {ASTERISK, <<"h","t","t","p",":","/","/","h","/","a">>, <<"H","T","T","P",":","/","/","h","/","a","?","x","=","1">>, <<"h","t","t","p",":","/","/","h">>, <<"/","a">>, <<"/","/","a">>, <<"/","a","#","f">>, <<"h",":","8","0">>}
UriMethods == {<<"G","E","T">>, <<"O","P","T","I","O","N","S">>, <<"C","O","N","N","E","C","T">>}
UriProtocols == {HTTP10, HTTP11, <<"H","T","T","P","/","2",".","0">>}

InitUri ==
    /\ server \in Servers
    /\ \E method \in UriMethods, uri \in UriForms, protocol \in UriProtocols :
          /\ rbuf = RequestLine(method, uri, protocol) \o Header(<<"H","o","s","t">>, <<"h">>) \o CRLF
          /\ hist = [NewHist(rbuf) EXCEPT !.tail = uri]
    /\ peer_closed \in BOOLEAN
    /\ sock_err = NoExc
    /\ sent = << >>
    /\ req = NewRequest
    /\ rfile = NoRFile
    /\ conn = NewConnection
    /\ pc = "parse"
    /\ nreq = 0
    /\ gw = NewGateway
    /\ last = NoLast

SpecUri == InitUri /\ [][NextLimits]_vars

\* parse_request is over for the first request
UriParsed == nreq = 1 /\ hist.at = "parse"
RefusedWith(codes) == ~req.ready /\ Len(sent) = 1 /\ StatusCodeOf(sent[1].data) \in codes /\ pc \in {"done", "closed"}

\* C33: for every form of the Request-URI, request-line parsing ends with the request
\* accepted or with a canned 400 or 505; it never ends in an internal error that
\* surfaces as a 500.
C33_UriForms ==
    UriParsed =>
        /\ hist.raised = NoExc
        /\ \/ req.ready /\ sent = << >> /\ pc = "respond"
           \/ RefusedWith({400, 505})

\* "CONNECT h:80 HTTP/1.1": parse_request_uri returned no path, the test for a fragment
\* raised TypeError and the peer was sent 500
C33_Witness ==
    /\ UriParsed /\ hist.tail = <<"h",":","8","0">> /\ req.method = <<"C","O","N","N","E","C","T">> /\ hist.raised = "TypeError"
    /\ RefusedWith({500}) /\ pc = "closed"

(***************************************************************************)
(* The accept loop statement by statement.  accept() returns a connection, *)
(* times out, fails with a socket.error of one of the classes tick() tells *)
(* apart, or is interrupted; tick() tests ready and puts the connection on *)
(* the queue of the worker pool.  nreq counts the calls of accept() that   *)
(* did not time out, hist.written is the queue: for every connection put,  *)
(* where the other thread stood at that moment; hist.length counts the     *)
(* errors that start() logged, hist.raised is how the last accept() ended. *)
(***************************************************************************)
MaxAccepts == 2

AcceptOutcomes == {"connection", Timeout, "EINTR", "EAGAIN", SockErrIgnored, SockErrFatal, "KeyboardInterrupt", "SystemExit"}

\* A tick() that lets every socket.error of accept() out
tick_accept_raises(sock, outcome) ==
    IF sock = NoSocket THEN [exc |-> NoExc, conn |-> FALSE]
    ELSE IF sock # "listening" THEN [exc |-> SockErrIgnored, conn |-> FALSE]
    ELSE IF outcome = "connection" THEN [exc |-> NoExc, conn |-> TRUE]
    ELSE IF outcome = Timeout THEN [exc |-> NoExc, conn |-> FALSE]
    ELSE [exc |-> outcome, conn |-> FALSE]

\* tick(): s, addr = self.socket.accept() and the except clauses of tick.  exc is what
\* tick() raises, conn whether it goes on with a connection.
tick_accept(sock, outcome) ==
    IF sock = NoSocket THEN [exc |-> NoExc, conn |-> FALSE]
    ELSE IF sock # "listening" THEN [exc |-> NoExc, conn |-> FALSE]
    ELSE IF outcome = "connection" THEN [exc |-> NoExc, conn |-> TRUE]
    ELSE IF outcome \in {Timeout, "EINTR", "EAGAIN", SockErrIgnored} THEN [exc |-> NoExc, conn |-> FALSE]
    ELSE [exc |-> outcome, conn |-> FALSE]

\* start(): try: self.tick() except (KeyboardInterrupt, SystemExit): raise; except: self.error_log(...)
TickDone(outcome, t) ==
    /\ pc' = [pc EXCEPT !.start = IF t.exc \in Interrupts THEN "raised" ELSE IF t.conn THEN "accepted" ELSE "interrupt"]
    /\ last' = [last EXCEPT !.exc = IF t.exc \in Interrupts THEN t.exc ELSE @]
    /\ hist' = [hist EXCEPT !.raised = outcome, !.length = IF t.exc # NoExc /\ t.exc \notin Interrupts THEN @ + 1 ELSE @]
    /\ nreq' = IF outcome \in AcceptOutcomes \ {Timeout} THEN nreq + 1 ELSE nreq
    /\ UNCHANGED <<server, rbuf, peer_closed, sock_err, sent, req, rfile, conn, gw>>

Tick ==
    /\ pc.start = "accept"
    /\ \E outcome \in AcceptOutcomes :
          /\ IF server.socket = "listening" /\ outcome # Timeout THEN nreq < MaxAccepts ELSE TRUE
          /\ TickDone(IF server.socket = "listening" THEN outcome ELSE server.socket, tick_accept(server.socket, outcome))

\* tick(): if not self.ready: return
TickReady == pc.start = "accepted" /\ StartStep(IF server.ready THEN "put" ELSE "interrupt", server)

\* tick(): conn = self.ConnectionClass(self, s, mf); ...; self.requests.put(conn)
TickEnqueue ==
    /\ pc.start = "put"
    /\ pc' = [pc EXCEPT !.start = "interrupt"]
    /\ hist' = [hist EXCEPT !.written = Append(@, pc.other)]
    /\ UNCHANGED <<server, rbuf, peer_closed, sock_err, sent, req, rfile, conn, nreq, gw, last>>

AcceptThread == Start \/ StartBind \/ StartListen \/ StartWorkers \/ StartReady \/ StartLoop \/ Tick \/ TickReady \/ TickEnqueue \/ StartInterrupt \/ StartWait \/ StartRaise

NextAccept == AcceptThread \/ CallStop \/ SetInterrupt \/ OtherThread

SpecAccept == InitServer /\ [][NextAccept]_vars

\* A call of tick() ends: the main thread leaves accept()
TickEnds == pc.start = "accept" /\ pc'.start # "accept"

\* C34: in the accept loop an exception of tick() other than KeyboardInterrupt and
\* SystemExit is logged and does not end the loop: start() goes on to the test of the
\* interrupt and of ready; KeyboardInterrupt and SystemExit leave start(); a timeout,
\* EINTR, a non-blocking-class error or an ignorable error of accept() makes tick()
\* return without logging and without putting anything on the queue.
C34_TickErrors ==
    [][TickEnds =>
          /\ hist'.written = hist.written
          /\ CASE hist'.raised \in Interrupts -> pc'.start = "raised" /\ last'.exc = hist'.raised /\ hist'.length = hist.length
               [] hist'.raised = SockErrFatal -> pc'.start = "interrupt" /\ hist'.length = hist.length + 1
               [] hist'.raised = "connection" -> pc'.start = "accepted" /\ hist'.length = hist.length
               [] OTHER -> pc'.start = "interrupt" /\ hist'.length = hist.length]_vars

\* accept() failed twice with a socket.error of no special class, both were logged, and
\* start() is in accept() again
C34_Witness == pc.start = "accept" /\ hist.length = 2 /\ hist.raised = SockErrFatal /\ server.ready /\ pc.other = "idle"

\* Where start() stands while the accept loop runs
LoopPositions == {"loop", "accept", "accepted", "put", "interrupt"}

\* stop() was called while the accept loop ran, and has returned
StopReturned == pc.other = "done" /\ hist.at \in LoopPositions

\* tick() puts a connection on the queue of the worker pool
Enqueues == hist'.written # hist.written

\* C38: once a stop() that was called while the accept loop ran has returned, tick()
\* puts no connection on the worker queue.
C38_NoPutAfterStop == [][StopReturned => ~Enqueues]_vars

\* tick() had passed its test of ready when stop() was called, and put the connection
\* on the queue after stop() had stopped the worker pool and returned
C38_Witness == hist.at = "put" /\ hist.written # << >> /\ hist.written[Len(hist.written)] = "done" /\ ~server.ready

(***************************************************************************)
(* The boundary between two requests on a connection that is kept.         *)
(***************************************************************************)
\* The first request has a body and a second request follows it on the wire
BodyThenRequest == hist.wire0 \in {PostLength \o GetB11Close, PostChunked \o GetB11Close}

\* communicate() goes round its loop: parse_request is called for the second request
ParsesSecond == pc = "parse" /\ nreq = 1 /\ nreq' = 2

\* C37: on a kept-alive connection, whatever part of the body of a request the gateway
\* read, the next request is parsed starting at the first byte after the complete body
\* of the request before, for a chunked body (with its terminating chunk and trailer)
\* as for a body of known length.
C37_NextAtBoundary == [][BodyThenRequest /\ ParsesSecond => rbuf = GetB11Close]_vars

\* The gateway read nothing of a chunked body, and the chunks were parsed as the next
\* request, which was refused
C37_Witness == BodyThenRequest /\ nreq = 2 /\ hist.at = "parse" /\ gw.got = EMPTY /\ ~req.ready /\ hist.wire0 = PostChunked \o GetB11Close /\ hist.responded = 1

(***************************************************************************)
(* Requests that the parser refuses, before and after a request it takes.  *)
(***************************************************************************)
Fragment == <<"G","E","T"," ","/","a","#","f"," ","H","T","T","P","/","1",".","1">> \o CRLF \o Header(<<"H","o","s","t">>, <<"h">>) \o CRLF
NoHost == <<"G","E","T"," ","/","a"," ","H","T","T","P","/","1",".","1">> \o CRLF \o CRLF
Gzip == <<"P","O","S","T"," ","/"," ","H","T","T","P","/","1",".","1">> \o CRLF \o Header(<<"H","o","s","t">>, <<"h">>) \o Header(<<"T","r","a","n","s","f","e","r","-","E","n","c","o","d","i","n","g">>, <<"g","z","i","p">>) \o CRLF
Http2 == <<"G","E","T"," ","/","a"," ","H","T","T","P","/","2",".","0">> \o CRLF \o Header(<<"H","o","s","t">>, <<"h">>) \o CRLF
LongHeader11 == <<"G","E","T"," ","/","a"," ","H","T","T","P","/","1",".","1">> \o CRLF \o Header(<<"H","o","s","t">>, <<"h">>) \o Header(<<"X","-","P","a","d">>, Pad(SmallLimit)) \o CRLF

RefusedRequests == {Fragment, NoHost, Gzip, Http2, LongUri, LongHeader11}
RefusedWires == RefusedRequests \cup {bad \o GetB11Close : bad \in RefusedRequests} \cup {GetA11 \o bad : bad \in RefusedRequests} \cup {GetA11 \o GetB11Close}

InitRefused ==
    /\ server \in {s \in LimitServers : s.max_request_header_size # LargeLimit}
    /\ \E wire \in RefusedWires : rbuf = wire /\ hist = NewHist(wire)
    /\ peer_closed \in BOOLEAN
    /\ sock_err = NoExc
    /\ sent = << >>
    /\ req = NewRequest
    /\ rfile = NoRFile
    /\ conn = NewConnection
    /\ pc = "parse"
    /\ nreq = 0
    /\ gw = NewGateway
    /\ last = NoLast

SpecRefused == InitRefused /\ [][NextReading]_vars

ParseErrors == {400, 413, 414, 501, 505}

\* parse_request answered the current request with a canned error response
ParseRefused == nreq > 0 /\ hist.at = "parse" /\ Len(SendsOf(nreq)) > 0 /\ StatusCodeOf(SendsOf(nreq)[1].data) \in ParseErrors

\* C39: the gateway is invoked for a request only if parse_request() set ready; a
\* request that received a canned error response during parsing (400, 413, 414, 501,
\* 505) never reaches the gateway, receives no second status line, and is the last
\* request handled on its connection.
C39_RefusedIsLast ==
    /\ [](pc \in {"respond", "gateway"} => req.ready)
    /\ [](ParseRefused => ~req.ready /\ gw.ip = 0 /\ Len(SendsOf(nreq)) = 1 /\ pc \in {"done", "closed"})
    /\ [][ParseRefused => nreq' = nreq /\ sent' = sent]_vars

\* The second request of a connection was refused with 501 after the first was served,
\* and a request the peer sent behind it was left unread
C39_Witness ==
    /\ ParseRefused /\ nreq = 2 /\ pc = "closed" /\ StatusCodeOf(SendsOf(2)[1].data) = 501 /\ Len(HeaderBlocksOf(1)) = 1

(***************************************************************************)
(* Zero-length chunk frames in a chunked response.                         *)
(***************************************************************************)
\* The sends of response n that begin like a chunk frame of length zero
ZeroFrames(n) == {i \in 1..Len(SendsOf(n)) : startswith(SendsOf(n)[i].data, <<"0">> \o CRLF)}

\* The gateway calls request.write with an empty chunk
WritesEmpty == pc = "gateway" /\ gw'.ip = gw.ip + 1 /\ gw'.script[gw.ip] = [name |-> "write", arg |-> EMPTY]

\* A chunk frame of length zero goes on the wire
SendsZeroFrame == Len(sent') > Len(sent) /\ \E i \in Len(sent) + 1..Len(sent') : startswith(sent'[i].data, <<"0">> \o CRLF)

\* C40: with chunked_write engaged, request.write() never puts a zero-length chunk
\* frame on the wire (an empty chunk is written as zero bytes), so 0 CRLF CRLF is
\* emitted at most once per response, only by respond() after the gateway has
\* returned, and no chunk frame follows it.
C40_OneLastChunk ==
    /\ [](\A n \in 1..nreq : ZeroFrames(n) \subseteq {Len(SendsOf(n))} /\ \A i \in ZeroFrames(n) : SendsOf(n)[i].data = LastChunk)
    /\ [][WritesEmpty => sent' = sent]_vars
    /\ [][SendsZeroFrame => pc = "gateway" /\ hist'.at = "return" /\ req.chunked_write /\ sent'[Len(sent')].data = LastChunk]_vars

\* The gateway sent the headers of a chunked response, wrote an empty chunk and a
\* chunk, and respond() ended the response
C40_Witness ==
    /\ RespondReturned /\ req.chunked_write /\ LastSend = LastChunk /\ Len(gw.script) >= 3
    /\ gw.script[1].name = "send_headers" /\ gw.script[2] = [name |-> "write", arg |-> EMPTY] /\ gw.script[3] = [name |-> "write", arg |-> <<"o","k">>]
    /\ Len(SendsOf(nreq)) = 3 /\ SendsOf(nreq)[2].data = <<"2">> \o CRLF \o <<"o","k">> \o CRLF

(***************************************************************************)
(* py2makefile.makefile statement by statement.  The socket holds the data *)
(* of the peer in segments: a recv() returns bytes of the first segment    *)
(* only, at most as many as it was asked for, and the empty string once    *)
(* the peer has closed and every segment was taken.  buf is _rbuf.         *)
(***************************************************************************)
MaxStream == 3

\* socket._fileobject.default_bufsize (8192 in CPython): longer than every stream here
DefaultBufsize == 8

max(a, b) == IF a >= b THEN a ELSE b

\* self._sock.recv(size), through makefile.recv
sock_recv(segs, size) ==
    IF segs = << >> THEN [data |-> EMPTY, segs |-> segs]
    ELSE IF Len(segs[1]) <= size THEN [data |-> segs[1], segs |-> Tail(segs)]
    ELSE [data |-> Take(segs[1], size), segs |-> <<Drop(segs[1], size)>> \o Tail(segs)]

\* What a call returns: its value, the new _rbuf, what is left in the socket
Returned3(ret, buf, segs) == [ret |-> ret, buf |-> buf, segs |-> segs, exc |-> NoExc]
Raised3(exc, buf, segs) == [ret |-> EMPTY, buf |-> buf, segs |-> segs, exc |-> exc]

\* while True: data = self.recv(n); if not data: break; buf.write(data)
RECURSIVE recv_until_eof(_, _, _)
recv_until_eof_got(buf, r, n) == IF r.data = EMPTY THEN Returned3(buf, EMPTY, r.segs) ELSE recv_until_eof(buf \o r.data, r.segs, n)
recv_until_eof(buf, segs, n) == recv_until_eof_got(buf, sock_recv(segs, n), n)

\* read(size), StringIO buffer: the loop that reads until size bytes or EOF
RECURSIVE sio_read_loop(_, _, _)
sio_read_got(buf, r, size) ==
    IF r.data = EMPTY THEN Returned3(buf, EMPTY, r.segs)
    ELSE IF Len(r.data) = size /\ Len(buf) = 0 THEN Returned3(r.data, EMPTY, r.segs)
    ELSE IF Len(r.data) = size - Len(buf) THEN Returned3(buf \o r.data, EMPTY, r.segs)
    ELSE sio_read_loop(buf \o r.data, r.segs, size)
sio_read_loop(buf, segs, size) == sio_read_got(buf, sock_recv(segs, size - Len(buf)), size)

\* makefile.read(size), StringIO buffer
sio_read(buf, segs, size, rbufsize) ==
    IF size < 0 THEN recv_until_eof(buf, segs, max(rbufsize, DefaultBufsize))
    ELSE IF Len(buf) >= size THEN Returned3(Take(buf, size), Drop(buf, size), segs)
    ELSE sio_read_loop(buf, segs, size)

\* StringIO.readline(size) on a buffer read from its start
StringIO_readline_end(buf, nl) == IF nl > 0 THEN nl ELSE Len(buf)
StringIO_readline(buf, size) == Take(buf, IF size >= 0 /\ size < StringIO_readline_end(buf, find(buf, LF)) THEN size ELSE StringIO_readline_end(buf, find(buf, LF)))

\* while data != "\n": data = recv(1); if not data: break; buffers.append(data)
RECURSIVE recv_bytes_until_newline(_, _)
recv_bytes_until_newline_got(buffers, r) ==
    IF r.data = EMPTY THEN Returned3(buffers, EMPTY, r.segs)
    ELSE IF r.data = LF THEN Returned3(buffers \o r.data, EMPTY, r.segs)
    ELSE recv_bytes_until_newline(buffers \o r.data, r.segs)
recv_bytes_until_newline(buffers, segs) == recv_bytes_until_newline_got(buffers, sock_recv(segs, 1))

\* A readline that forgets what it received behind the newline
RECURSIVE recv_until_newline_forgets(_, _, _)
recv_until_newline_forgets_got(buf, r, nl, rbufsize) ==
    IF r.data = EMPTY THEN Returned3(buf, EMPTY, r.segs)
    ELSE IF nl > 0 THEN Returned3(buf \o Take(r.data, nl), EMPTY, r.segs)
    ELSE recv_until_newline_forgets(buf \o r.data, r.segs, rbufsize)
recv_until_newline_forgets(buf, segs, rbufsize) == recv_until_newline_forgets_got(buf, sock_recv(segs, rbufsize), find(sock_recv(segs, rbufsize).data, LF), rbufsize)

\* readline(), no size: the loop that reads until a newline or EOF
RECURSIVE recv_until_newline(_, _, _)
recv_until_newline_got(buf, r, nl, rbufsize) ==
    IF r.data = EMPTY THEN Returned3(buf, EMPTY, r.segs)
    ELSE IF nl > 0 THEN Returned3(buf \o Take(r.data, nl), Drop(r.data, nl), r.segs)
    ELSE recv_until_newline(buf \o r.data, r.segs, rbufsize)
recv_until_newline(buf, segs, rbufsize) == recv_until_newline_got(buf, sock_recv(segs, rbufsize), find(sock_recv(segs, rbufsize).data, LF), rbufsize)

\* readline(size), StringIO buffer: the loop that reads until size bytes, a newline or EOF
RECURSIVE sio_readline_loop(_, _, _, _)
sio_readline_got(buf, r, size, rbufsize, left, nl) ==
    IF r.data = EMPTY THEN Returned3(buf, EMPTY, r.segs)
    ELSE IF nl > 0 THEN (IF Len(buf) > 0 THEN Returned3(buf \o Take(r.data, nl), Drop(r.data, nl), r.segs) ELSE Returned3(Take(r.data, nl), Drop(r.data, nl), r.segs))
    ELSE IF Len(r.data) = size /\ Len(buf) = 0 THEN Returned3(r.data, EMPTY, r.segs)
    ELSE IF Len(r.data) >= left THEN Returned3(buf \o Take(r.data, left), Drop(r.data, left), r.segs)
    ELSE sio_readline_loop(buf \o r.data, r.segs, size, rbufsize)
sio_readline_loop(buf, segs, size, rbufsize) ==
    sio_readline_got(buf, sock_recv(segs, rbufsize), size, rbufsize, size - Len(buf), findsub(sock_recv(segs, rbufsize).data, LF, 1, size - Len(buf)))

\* makefile.readline(size), StringIO buffer; bline is buf.readline(size)
sio_readline_buffered(buf, segs, size, rbufsize, bline) ==
    IF Len(buf) > 0 /\ (endswith(bline, LF) \/ Len(bline) = size) THEN Returned3(bline, Drop(buf, Len(bline)), segs)
    ELSE IF size < 0 THEN (IF rbufsize <= 1 THEN recv_bytes_until_newline(buf, segs) ELSE recv_until_newline(buf, segs, rbufsize))
    ELSE IF Len(buf) >= size THEN Returned3(Take(buf, size), Drop(buf, size), segs)
    ELSE sio_readline_loop(buf, segs, size, rbufsize)
sio_readline(buf, segs, size, rbufsize) == sio_readline_buffered(buf, segs, size, rbufsize, StringIO_readline(buf, size))

\* read(size), string buffer: the loop that reads until size bytes or EOF
RECURSIVE str_read_loop(_, _, _, _)
str_read_got(buffers, r, size, rbufsize, left) ==
    IF r.data = EMPTY THEN Returned3(buffers, EMPTY, r.segs)
    ELSE IF Len(r.data) >= left THEN Returned3(buffers \o Take(r.data, left), Drop(r.data, left), r.segs)
    ELSE str_read_loop(buffers \o r.data, r.segs, size, rbufsize)
str_read_loop(buffers, segs, size, rbufsize) == str_read_got(buffers, sock_recv(segs, max(rbufsize, size - Len(buffers))), size, rbufsize, size - Len(buffers))

\* makefile.read(size), string buffer
str_read(buf, segs, size, rbufsize) ==
    IF size < 0 THEN recv_until_eof(buf, segs, IF rbufsize <= 1 THEN DefaultBufsize ELSE rbufsize)
    ELSE IF Len(buf) >= size THEN Returned3(Take(buf, size), Drop(buf, size), segs)
    ELSE str_read_loop(buf, segs, size, rbufsize)

\* readline(size), string buffer: the loop that reads until size bytes, a newline or EOF
RECURSIVE str_readline_loop(_, _, _, _)
str_readline_got(buffers, r, size, rbufsize, left, nl) ==
    IF r.data = EMPTY THEN Returned3(buffers, EMPTY, r.segs)
    ELSE IF nl > 0 THEN Returned3(buffers \o Take(r.data, nl), Drop(r.data, nl), r.segs)
    ELSE IF Len(r.data) >= left THEN Returned3(buffers \o Take(r.data, left), Drop(r.data, left), r.segs)
    ELSE str_readline_loop(buffers \o r.data, r.segs, size, rbufsize)
str_readline_loop(buffers, segs, size, rbufsize) ==
    str_readline_got(buffers, sock_recv(segs, rbufsize), size, rbufsize, size - Len(buffers), findsub(sock_recv(segs, rbufsize).data, LF, 1, size - Len(buffers)))

\* makefile.readline(size), string buffer
str_readline_any(buf, segs, rbufsize, nl) ==
    IF rbufsize <= 1 THEN (IF buf # EMPTY THEN Raised3("AssertionError", buf, segs) ELSE recv_bytes_until_newline(EMPTY, segs))
    ELSE IF nl > 0 THEN Returned3(Take(buf, nl), Drop(buf, nl), segs)
    ELSE recv_until_newline(buf, segs, rbufsize)
str_readline_limit(buf, segs, size, rbufsize, nl) ==
    IF nl > 0 THEN Returned3(Take(buf, nl), Drop(buf, nl), segs)
    ELSE IF Len(buf) >= size THEN Returned3(Take(buf, size), Drop(buf, size), segs)
    ELSE str_readline_loop(buf, segs, size, rbufsize)
str_readline(buf, segs, size, rbufsize) ==
    IF size < 0 THEN str_readline_any(buf, segs, rbufsize, find(buf, LF))
    ELSE str_readline_limit(buf, segs, size, rbufsize, findsub(buf, LF, 1, size))

\* if not _fileobject_uses_str_type: ... else: ...
makefile_read(rf, segs, size) == IF rf.kind = "StringIO" THEN sio_read(rf.buffer, segs, size, rf.rbufsize) ELSE str_read(rf.buffer, segs, size, rf.rbufsize)
makefile_readline(rf, segs, size) == IF rf.kind = "StringIO" THEN sio_readline(rf.buffer, segs, size, rf.rbufsize) ELSE str_readline(rf.buffer, segs, size, rf.rbufsize)

(***************************************************************************)
(* A makefile over a socket whose peer sent a stream in segments and       *)
(* closed; rbuf is the list of the segments still in the socket.           *)
(***************************************************************************)
StreamBytes == {"a", "b", "\n"}
Streams == UNION {[1..n -> StreamBytes] : n \in 0..MaxStream}

RECURSIVE Segmentations(_)
Segmentations(s) == IF s = EMPTY THEN {<< >>} ELSE UNION {{<<Take(s, k)>> \o rest : rest \in Segmentations(Drop(s, k))} : k \in 1..Len(s)}

ReaderSizes == (-1)..MaxStream
Makefiles == {[kind |-> k, rbufsize |-> n, buffer |-> EMPTY, bytes_read |-> 0] : k \in {"StringIO", "str"}, n \in {1, 2, DefaultBufsize}}

InitReader ==
    /\ server \in {s \in Servers : s.protocol = HTTP11}
    /\ rfile \in Makefiles
    /\ \E s \in Streams : \E segs \in Segmentations(s) : rbuf = segs /\ hist = NewHist(s)
    /\ peer_closed = TRUE
    /\ sock_err = NoExc
    /\ sent = << >>
    /\ req = NewRequest
    /\ conn = NewConnection
    /\ pc = "reading"
    /\ nreq = 0
    /\ gw = NewGateway
    /\ last = NoLast

\* A call of the reader returned r
ReaderCalled(op, size, r) ==
    /\ pc = "reading"
    /\ rfile' = [rfile EXCEPT !.buffer = r.buf, !.bytes_read = @ + Len(Flatten(rbuf)) - Len(Flatten(r.segs))]
    /\ rbuf' = r.segs
    /\ last' = [NoLast EXCEPT !.op = op, !.size = size, !.data = r.ret, !.exc = r.exc]
    /\ hist' = [hist EXCEPT !.returned = @ \o r.ret, !.tail = rfile.buffer \o Flatten(rbuf)]
    /\ UNCHANGED <<server, peer_closed, sock_err, sent, req, conn, pc, nreq, gw>>

MakefileRead == \E size \in ReaderSizes : ReaderCalled("read", size, makefile_read(rfile, rbuf, size))
MakefileReadline == \E size \in ReaderSizes : ReaderCalled("readline", size, makefile_readline(rfile, rbuf, size))

NextReader == MakefileRead \/ MakefileReadline

SpecReader == InitReader /\ [][NextReader]_vars

\* The reference reader over a stream: the next n bytes, and the next bytes up to and
\* including the first LF, or limit bytes, or up to the end, whichever comes first
ReferenceRead(stream, n) == IF n < 0 THEN stream ELSE Take(stream, n)
ReferenceReadline(stream, limit) ==
    Take(stream, CHOOSE k \in 0..Len(stream) :
                    /\ k = Len(stream) \/ k = limit \/ (k > 0 /\ stream[k] = "\n")
                    /\ \A j \in 0..(k - 1) : ~(j = Len(stream) \/ j = limit \/ (j > 0 /\ stream[j] = "\n")))

\* C35: the buffered reader agrees with a reference stream reader: for any sequence of
\* read(n) and readline(limit) and any segmentation of what recv() returns, read(n)
\* returns exactly the next n bytes of the stream (fewer only at EOF) and
\* readline(limit) the next bytes up to and including the first LF, or limit bytes, or
\* up to EOF, whichever comes first; what was returned so far is a prefix of the
\* stream, no byte lost, duplicated or reordered.
C35_ReaderAgrees ==
    last.op \in {"read", "readline"} =>
        /\ last.exc = NoExc
        /\ last.data = IF last.op = "read" THEN ReferenceRead(hist.tail, last.size) ELSE ReferenceReadline(hist.tail, last.size)
        /\ hist.returned \o rfile.buffer \o Flatten(rbuf) = hist.wire0
        /\ rfile.bytes_read = Len(hist.returned) + Len(rfile.buffer)

\* A readline found its newline in the second recv, which had brought a byte more: the
\* byte is kept in the buffer of the reader
C35_Witness ==
    /\ last.op = "readline" /\ last.size = -1 /\ last.data = <<"a", "\n">> /\ rfile.buffer = <<"b">> /\ rbuf = << >>
    /\ hist.wire0 = <<"a", "\n", "b">> /\ hist.tail = hist.wire0 /\ rfile.kind = "StringIO" /\ rfile.rbufsize = 2

(***************************************************************************)
(* makefile.sendall over a socket that accepts a part of what it is given  *)
(* or fails.  rbuf is the local data of sendall, sent what the socket has  *)
(* accepted, nreq the number of calls of send that succeeded, last.calls   *)
(* the number that failed, hist.raised the last error of the socket.       *)
(***************************************************************************)
MaxSendall == 3
MaxSendErrors == 2

\* errors.socket_errors_nonblocking, by the names of its members
socket_errors_nonblocking == {"EAGAIN", "EWOULDBLOCK"}

\* A sendall that gives up a byte when the socket would block
sendall_step_skips(data, o) ==
    IF o.exc = NoExc THEN [data |-> Drop(data, o.n), accepted |-> Take(data, o.n), written |-> o.n, exc |-> NoExc]
    ELSE IF o.exc \in socket_errors_nonblocking THEN [data |-> Drop(data, 1), accepted |-> EMPTY, written |-> 0, exc |-> NoExc]
    ELSE [data |-> data, accepted |-> EMPTY, written |-> 0, exc |-> o.exc]

\* One round of the loop of sendall: bytes_sent = self.send(data); data = data[bytes_sent:],
\* and the except clause; o is what self._sock.send(data) did
sendall_step(data, o) ==
    IF o.exc = NoExc THEN [data |-> Drop(data, o.n), accepted |-> Take(data, o.n), written |-> o.n, exc |-> NoExc]
    ELSE IF o.exc \in socket_errors_nonblocking THEN [data |-> data, accepted |-> EMPTY, written |-> 0, exc |-> NoExc]
    ELSE [data |-> data, accepted |-> EMPTY, written |-> 0, exc |-> o.exc]

SendData == UNION {[1..n -> {"a", "b"}] : n \in 0..MaxSendall}
SendErrors == socket_errors_nonblocking \cup {SockErrIgnored, SockErrFatal, Timeout}
SendOutcomes(data) == {[n |-> k, exc |-> NoExc] : k \in 1..Len(data)} \cup {[n |-> 0, exc |-> e] : e \in SendErrors}

InitSendall ==
    /\ server \in {s \in Servers : s.protocol = HTTP11}
    /\ \E written \in {0, 7} : \E data \in SendData :
          /\ rfile = [kind |-> "makefile", bytes_written |-> written]
          /\ rbuf = data
          /\ last = [NoLast EXCEPT !.op = "sendall", !.data = data, !.size = written]
    /\ hist = NewHist(EMPTY)
    /\ peer_closed = FALSE
    /\ sock_err = NoExc
    /\ sent = EMPTY
    /\ req = NewRequest
    /\ conn = NewConnection
    /\ pc = "sendall"
    /\ nreq = 0
    /\ gw = NewGateway

SendallDid(o, r) ==
    /\ rbuf' = r.data
    /\ sent' = sent \o r.accepted
    /\ rfile' = [rfile EXCEPT !.bytes_written = @ + r.written]
    /\ pc' = IF r.exc # NoExc THEN "raised" ELSE "sendall"
    /\ last' = [last EXCEPT !.exc = r.exc, !.calls = IF o.exc # NoExc THEN @ + 1 ELSE @]
    /\ hist' = [hist EXCEPT !.raised = o.exc]
    /\ nreq' = IF o.exc = NoExc THEN nreq + 1 ELSE nreq
    /\ UNCHANGED <<server, peer_closed, sock_err, req, conn, gw>>

\* while data: try: bytes_sent = self.send(data) ...
SendallSend ==
    /\ pc = "sendall" /\ rbuf # EMPTY
    /\ \E o \in SendOutcomes(rbuf) : (o.exc # NoExc => last.calls < MaxSendErrors) /\ SendallDid(o, sendall_step(rbuf, o))

\* while data: is false, sendall returns
SendallReturn ==
    /\ pc = "sendall" /\ rbuf = EMPTY
    /\ pc' = "returned"
    /\ UNCHANGED <<server, rbuf, peer_closed, sock_err, sent, req, rfile, conn, nreq, gw, last, hist>>

NextSendall == SendallSend \/ SendallReturn

SpecSendall == InitSendall /\ [][NextSendall]_vars

\* C36: makefile.sendall(data) returns only after every byte of data has been accepted
\* by the socket, in order and exactly once, across any pattern of partial sends and
\* EAGAIN-class errors, which are retried without skipping or resending bytes;
\* bytes_written grows by exactly len(data); any other socket error propagates.
C36_Sendall ==
    /\ sent \o rbuf = last.data
    /\ rfile.bytes_written = last.size + Len(sent)
    /\ pc = "returned" => sent = last.data /\ rfile.bytes_written = last.size + Len(last.data)
    /\ hist.raised \in socket_errors_nonblocking => pc = "sendall" /\ last.exc = NoExc
    /\ hist.raised \in SendErrors \ socket_errors_nonblocking => pc = "raised" /\ last.exc = hist.raised

\* sendall returned after two sends of a part of three bytes and two errors of the
\* EAGAIN class
C36_Witness == pc = "returned" /\ Len(last.data) = 3 /\ nreq = 2 /\ last.calls >= 2 /\ hist.raised = NoExc /\ last.size = 7
====
